---- MODULE Spec2Model ----
(***************************************************************************)
(* A model of the sage patchbot worker (src/src/patchbot.py): the rating   *)
(* engine (rate_ticket, compare_machines), the selector (get_ticket), the  *)
(* skip ledger (Patchbot.to_skip) and the pipeline of test_a_ticket with   *)
(* its reporting loop.                                                     *)
(*                                                                         *)
(* Three specifications share the module:                                  *)
(*   SpecRate    rate_ticket as a function of its inputs                   *)
(*   SpecSelect  get_ticket, the skip ledger and the clock                 *)
(*   Spec        one call of test_a_ticket, from the call to its return    *)
(***************************************************************************)
EXTENDS Integers, Sequences, FiniteSets, TLC

\* ------------------------------------------------------------------ bounds
\* Longest list of relevant prior reports of a rated ticket.
MaxReports == 2
\* The selector's clock runs over 0..MaxTime.
MaxTime == 1
\* Longest retry delay a skip entry is written with (in clock ticks).
MaxDelay == 1
\* Longest ticket list the coordinator serves to get_ticket.
MaxCandidates == 2
\* Longest spkg list of a ticket under test.
MaxSpkgs == 1
\* Number of configured plugins, config['plugins'].
NumPlugins == 3
\* The hours a ticket run is followed for.
MaxRunTime == 4

\* ------------------------------------------------- Python 2 value ordering
\* The values `uniqueness` takes: the int 100 of the baseline sentinel, the
\* list compare_machines returns, the tuples (100,) and (0, 0, 0, 0, 1).
\* Booleans are the ints 0 and 1, as in Python.
PyInt(n) == [kind |-> "int", v |-> <<n>>]
PyList(s) == [kind |-> "list", v |-> s]
PyTuple(s) == [kind |-> "tuple", v |-> s]

\* Python 2 orders values of different types: numbers first, then by type
\* name ("list" < "tuple").
TypeRank(x) == CASE x.kind = "int" -> 0 [] x.kind = "list" -> 1 [] OTHER -> 2

RECURSIVE SeqCmp(_, _)
SeqCmp(a, b) ==
    IF a = <<>> /\ b = <<>> THEN 0
    ELSE IF a = <<>> THEN -1
    ELSE IF b = <<>> THEN 1
    ELSE IF Head(a) < Head(b) THEN -1
    ELSE IF Head(a) > Head(b) THEN 1
    ELSE SeqCmp(Tail(a), Tail(b))

\* cmp(x, y) of Python 2 on these values.
PyCmp(x, y) ==
    IF TypeRank(x) # TypeRank(y)
    THEN (IF TypeRank(x) < TypeRank(y) THEN -1 ELSE 1)
    ELSE SeqCmp(x.v, y.v)

\* A mutant of PyMin: the field-wise minimum of two vectors.
PyMinFieldwise(x, y) ==
    IF x.kind = "tuple" /\ Len(x.v) = 1 THEN y
    ELSE LET n == IF Len(x.v) < Len(y.v) THEN Len(x.v) ELSE Len(y.v)
         IN PyList([i \in 1..n |-> IF x.v[i] < y.v[i] THEN x.v[i] ELSE y.v[i]])

\* min(x, y): the first of the two unless the second is strictly smaller.
PyMin(x, y) == IF PyCmp(y, x) < 0 THEN y ELSE x

\* any(x)
PyAny(x) == \E i \in 1..Len(x.v) : x.v[i] # 0

\* ------------------------------------------------------- compare_machines
\* The number of fields of a machine fingerprint (machine_data).
MachineLen == 5

Take(s, n) == SubSeq(s, 1, IF n < Len(s) THEN n ELSE Len(s))

\* A mutant of compare_machines: a shorter fingerprint is not flagged.
compare_machines_no_len(a, b, machine_match) ==
    LET a1 == Take(a, machine_match)
        b1 == Take(b, machine_match)
        n == IF Len(a1) < Len(b1) THEN Len(a1) ELSE Len(b1)
    IN [i \in 1..n |-> 0]

compare_machines(a, b, machine_match) ==
    LET a1 == Take(a, machine_match)
        b1 == Take(b, machine_match)
        n == IF Len(a1) < Len(b1) THEN Len(a1) ELSE Len(b1)
        diff == [i \in 1..n |-> IF a1[i] # b1[i] THEN 1 ELSE 0]
    IN IF Len(a1) # Len(b1) THEN Append(diff, 1) ELSE diff

\* ------------------------------------------------------------ configuration
\* The default bonus table of get_config.
default_bonus ==
    [needs_review |-> 1000, positive_review |-> 500, blocker |-> 100,
     critical |-> 60, major |-> 10, unique |-> 40, applies |-> 20,
     behind |-> 1]

\* This worker's fingerprint (config['machine']).
LocalMachine == <<"Ubuntu", "14.04", "i686", "3.13.0", "arando">>

\* The identities the coordinator trusts (config['trusted_authors']).
TrustedAuthors == {"alice", "bob", "git", "vbraun_spam"}

\* get_config with no config file: the defaults.
DefaultConfig ==
    [bonus |-> default_bonus,
     trusted_authors |-> TrustedAuthors,
     machine |-> LocalMachine,
     machine_match |-> MachineLen]

\* Bonus tables of a config file, merged with the defaults (lines 448-453):
\* one that rewards the author alice, and one that also rewards an untrusted
\* identity and a closed status and penalises ticket 42.
AuthorBonus ==
    [k \in DOMAIN default_bonus \cup {"alice"} |->
        IF k = "alice" THEN 1000 ELSE default_bonus[k]]

WideBonus ==
    [k \in DOMAIN default_bonus \cup {"alice", "mallory", "closed", "42"} |->
        CASE k = "alice" -> 1000
          [] k = "mallory" -> 5000
          [] k = "closed" -> 5000
          [] k = "42" -> 0 - 50
          [] OTHER -> default_bonus[k]]

BonusTables == {default_bonus, AuthorBonus, WideBonus}

\* The configurations get_config returns for these tables.
Configs == {[DefaultConfig EXCEPT !.bonus = b] : b \in BonusTables}

\* bonus.get(key, 0)
BonusGet(bonus, key) == IF key \in DOMAIN bonus THEN bonus[key] ELSE 0

\* ---------------------------------------------------------------- the ledger
\* to_skip maps a ticket id to its retry-not-before time; NoEntry: no key.
NoEntry == -1

\* ------------------------------------------------------------- rate_ticket
\* A mutant of the status rule: closed tickets are rated too.
AllowedStatusWithClosed ==
    {"needs_review", "positive_review", "needs_info", "needs_work", "closed"}

\* Lines 580-581.
AllowedStatus == {"needs_review", "positive_review", "needs_info", "needs_work"}
ExcludedMilestones ==
    {"sage-duplicate/invalid/wontfix", "sage-feature", "sage-pending",
     "sage-wishlist"}

\* The reports rate_ticket scans: util.current_reports(ticket, base, newer)
\* after util.prune_pending(ticket).
current_reports(ticket) == ticket.reports

\* The outcome of a call: kind "score" (the 3-tuple), "none" (return None) or
\* "raise"; rule names the statement that decided; to_skip is the ledger after
\* the call.
RateResult(kind, rule, u, r, t, skip) ==
    [kind |-> kind, rule |-> rule, uniqueness |-> u, rating |-> r,
     tiebreak |-> t, to_skip |-> skip]

NoVector == PyTuple(<<>>)

\* Lines 595-600 and 604-609: every identity must be trusted.
AllTrusted(names, config) ==
    \A i \in 1..Len(names) : names[i] \in config.trusted_authors

RECURSIVE SumBonus(_, _)
SumBonus(names, bonus) ==
    IF names = <<>> THEN 0
    ELSE BonusGet(bonus, Head(names)) + SumBonus(Tail(names), bonus)

\* A mutant of BaseRating: an author counts once, like a participant.
BaseRatingAuthorsOnce(ticket, config) ==
    SumBonus(ticket.authors, config.bonus)
    + SumBonus(ticket.participants, config.bonus)
    + (IF ticket.component # "" THEN BonusGet(config.bonus, ticket.component) ELSE 0)
    + BonusGet(config.bonus, ticket.status)
    + BonusGet(config.bonus, ticket.priority)
    + BonusGet(config.bonus, ToString(ticket.id))

\* The rating after lines 593-622.
BaseRating(ticket, config) ==
    2 * SumBonus(ticket.authors, config.bonus)
    + SumBonus(ticket.participants, config.bonus)
    + (IF ticket.component # "" THEN BonusGet(config.bonus, ticket.component) ELSE 0)
    + BonusGet(config.bonus, ticket.status)
    + BonusGet(config.bonus, ticket.priority)
    + BonusGet(config.bonus, ToString(ticket.id))

\* The override vector of line 649.
BehindVector == PyTuple(<<0, 0, 0, 0, 1>>)

\* A mutant of ScanReport: the override of line 648 without its only_in_base
\* condition.
ScanReportAlwaysOverride(acc, report, config) ==
    LET oib == IF report.has_git_base THEN <<report.behind>> ELSE acc.only_in_base
        rating1 == IF report.has_git_base
                   THEN acc.rating + config.bonus["behind"] * report.behind
                   ELSE acc.rating
        cmpv == PyList(compare_machines(report.machine, config.machine,
                                        config.machine_match))
    IN IF acc.raised THEN acc
       ELSE IF oib = <<>> THEN [acc EXCEPT !.raised = TRUE]
       ELSE LET ru == IF ~PyAny(cmpv) THEN BehindVector ELSE cmpv
                rating2 == IF report.status # "ApplyFailed"
                           THEN rating1 + BonusGet(config.bonus, "applies")
                           ELSE rating1
            IN [uniqueness |-> PyMin(acc.uniqueness, ru),
                rating |-> rating2 - BonusGet(config.bonus, "unique"),
                only_in_base |-> oib,
                raised |-> FALSE]

\* One iteration of the report loop, lines 635-656.  acc holds the locals
\* uniqueness, rating and only_in_base (<<>> while unbound) and whether the
\* loop has raised.
ScanReport(acc, report, config) ==
    LET oib == IF report.has_git_base THEN <<report.behind>> ELSE acc.only_in_base
        rating1 == IF report.has_git_base
                   THEN acc.rating + config.bonus["behind"] * report.behind
                   ELSE acc.rating
        cmpv == PyList(compare_machines(report.machine, config.machine,
                                        config.machine_match))
    IN IF acc.raised THEN acc
       ELSE IF oib = <<>> THEN [acc EXCEPT !.raised = TRUE]
       ELSE LET ru == IF oib[1] # 0 /\ ~PyAny(cmpv) THEN BehindVector ELSE cmpv
                rating2 == IF report.status # "ApplyFailed"
                           THEN rating1 + BonusGet(config.bonus, "applies")
                           ELSE rating1
            IN [uniqueness |-> PyMin(acc.uniqueness, ru),
                rating |-> rating2 - BonusGet(config.bonus, "unique"),
                only_in_base |-> oib,
                raised |-> FALSE]

RECURSIVE ScanReports(_, _, _)
ScanReports(acc, reports, config) ==
    IF reports = <<>> THEN acc
    ELSE ScanReports(ScanReport(acc, Head(reports), config), Tail(reports), config)

\* A mutant of rate_ticket's skip rule: an entry expires at its time.
SkipRuleExpireAtTime(id, skip, now) ==
    IF skip[id] = NoEntry THEN [blocked |-> FALSE, to_skip |-> skip]
    ELSE IF skip[id] <= now
         THEN [blocked |-> FALSE, to_skip |-> [skip EXCEPT ![id] = NoEntry]]
         ELSE [blocked |-> TRUE, to_skip |-> skip]

\* A mutant of rate_ticket's skip rule: an expired entry is left in place.
SkipRuleNoDelete(id, skip, now) ==
    IF skip[id] = NoEntry THEN [blocked |-> FALSE, to_skip |-> skip]
    ELSE IF skip[id] < now
         THEN [blocked |-> FALSE, to_skip |-> skip]
         ELSE [blocked |-> TRUE, to_skip |-> skip]

\* Lines 667-673: the ledger rule, with its deletion of an expired entry.
SkipRule(id, skip, now) ==
    IF skip[id] = NoEntry THEN [blocked |-> FALSE, to_skip |-> skip]
    ELSE IF skip[id] < now
         THEN [blocked |-> FALSE, to_skip |-> [skip EXCEPT ![id] = NoEntry]]
         ELSE [blocked |-> TRUE, to_skip |-> skip]

\* The locals before the report loop (lines 568, 629): only_in_base unbound.
ScanStart(rating) ==
    [uniqueness |-> PyTuple(<<100>>), rating |-> rating,
     only_in_base |-> <<>>, raised |-> FALSE]

rate_ticket(ticket, config, skip, now) ==
    IF ticket.id = 0
    THEN RateResult("score", "baseline", PyInt(100), 100, 0, skip)
    ELSE IF ~ticket.git_branch
    THEN RateResult("none", "no_branch", NoVector, 0, 0, skip)
    ELSE IF ticket.status \notin AllowedStatus
    THEN RateResult("none", "status", NoVector, 0, 0, skip)
    ELSE IF ticket.milestone \in ExcludedMilestones
    THEN RateResult("none", "milestone", NoVector, 0, 0, skip)
    ELSE IF ~AllTrusted(ticket.authors, config)
    THEN RateResult("none", "author", NoVector, 0, 0, skip)
    ELSE IF ~AllTrusted(ticket.participants, config)
    THEN RateResult("none", "participant", NoVector, 0, 0, skip)
    ELSE LET start == ScanStart(BaseRating(ticket, config))
             acc == IF ticket.retry THEN start
                    ELSE ScanReports(start, current_reports(ticket), config)
         IN IF acc.raised
            THEN RateResult("raise", "only_in_base", NoVector, 0, 0, skip)
            ELSE IF ~PyAny(acc.uniqueness)
            THEN RateResult("none", "unique", acc.uniqueness, acc.rating, 0, skip)
            ELSE LET s == SkipRule(ticket.id, skip, now)
                 IN IF s.blocked
                    THEN RateResult("none", "skipped", acc.uniqueness,
                                    acc.rating, 0, s.to_skip)
                    ELSE RateResult("score", "score", acc.uniqueness,
                                    acc.rating, 0 - ticket.id, s.to_skip)

\* ------------------------------------------------------------------ state
VARIABLES
    rticket,    \* SpecRate: the ticket rate_ticket is called with
    rated,      \* SpecRate: <<>> or <<the outcome of that call>>
    rconfig,    \* SpecRate: the configuration, Patchbot.config
    now,        \* the clock, time.time()
    to_skip,    \* Patchbot.to_skip: ticket id -> retry-not-before time or NoEntry
    spc,        \* SpecSelect: where get_ticket stands: "idle", "fetch", "rate"
    counter,    \* get_ticket's local counter of the fetch loop
    served,     \* get_ticket's local `all`: the ticket list the coordinator served
    pass        \* SpecSelect: <<>> or the record of the get_ticket call just ended

\* The pipeline of test_a_ticket: one call, from the call to its end.
VARIABLES
    job,             \* the ticket under test: id, git_branch, spkgs
    dry_run,         \* Patchbot.dry_run
    plugin_only,     \* Patchbot.plugin_only
    environ,         \* whether os.environ holds SAGE_ROOT
    pc,              \* where test_a_ticket stands
    state,           \* the local `state`, "unbound" until first assigned
    exc,             \* the exception in flight
    plugins_results, \* the local list plugins_results
    plugins_passed,  \* the local plugins_passed: <<>> until line 823
    res,             \* the plugin loop's local `res`
    passed,          \* the plugin loop's local `passed`
    attempt,         \* failed deliveries of the final report so far
    calls,           \* the calls of report_ticket made, in order
    stages,          \* the stage actions run (apply, build, tests), with outcome
    plugin_failed,   \* some plugin returned a failing result or raised
    timer,           \* Timer._history: the labels finished
    patch_dir,       \* temporary patch directories on disk
    returned         \* what test_a_ticket returned

\* The worker process, main: its options, its loop, the calls it makes.
VARIABLES
    nplugins,        \* the number of configured plugins, len(config['plugins'])
    options,         \* the command line: skip_base, interactive
    mpc,             \* where main stands
    tickets,         \* main's list `tickets` (--ticket), not yet popped
    iter,            \* iterations of the worker loop begun
    popped,          \* main's local `ticket`: <<N>>, or <<>> for None
    exit_code,       \* <<>> while the process lives, else <<its exit code>>
    last,            \* how the last call of test_a_ticket ended
    to_skip_at_call  \* the ledger as the call of test_a_ticket found it

rateVars == <<rticket, rated, rconfig>>
mainVars == <<nplugins, options, mpc, tickets, iter, popped, exit_code, last,
              to_skip_at_call>>
selVars == <<now, to_skip, spc, counter, served, pass>>
pipeVars == <<job, dry_run, plugin_only, environ, pc, state, exc,
              plugins_results, plugins_passed, res, passed, attempt, calls,
              stages, plugin_failed, timer, patch_dir, returned>>
vars == <<rticket, rated, rconfig, now, to_skip, spc, counter, served, pass,
          nplugins, options, mpc, tickets, iter, popped, exit_code, last,
          to_skip_at_call,
          job, dry_run, plugin_only, environ, pc, state, exc,
          plugins_results, plugins_passed, res, passed, attempt, calls,
          stages, plugin_failed, timer, patch_dir, returned>>

TicketIds == {0, 7, 42}

\* Patchbot.__init__: to_skip = {}
EmptyLedger == [i \in TicketIds |-> NoEntry]

\* No exception in flight.
NoExc == [kind |-> "none", seconds |-> 0]

\* The locals of test_a_ticket before its first statement.
FreshLocals ==
    /\ state = "unbound"
    /\ exc = NoExc
    /\ plugins_results = <<>>
    /\ plugins_passed = <<>>
    /\ res = [kind |-> "unbound", status |-> "", baseline |-> FALSE]
    /\ passed = <<>>
    /\ attempt = 0
    /\ calls = <<>>
    /\ stages = <<>>
    /\ plugin_failed = FALSE
    /\ timer = <<>>
    /\ patch_dir = 0
    /\ returned = "unbound"

\* No call of test_a_ticket has ended in this iteration of the worker loop.
NoRun == [kind |-> "none", outcome |-> "none", failed |-> FALSE]

\* main is not running; the configured plugins are NumPlugins.
MainIdle ==
    /\ nplugins = NumPlugins
    /\ options = [skip_base |-> FALSE, interactive |-> FALSE, count |-> 0]
    /\ mpc = "none"
    /\ tickets = <<>>
    /\ iter = 0
    /\ popped = <<>>
    /\ exit_code = <<>>
    /\ last = NoRun
    /\ to_skip_at_call = EmptyLedger

\* A worker on which test_a_ticket is not called.
PipeIdle ==
    /\ MainIdle
    /\ job = [id |-> 0, git_branch |-> TRUE, spkgs |-> 0]
    /\ dry_run = FALSE
    /\ plugin_only = FALSE
    /\ environ = FALSE
    /\ pc = "idle"
    /\ FreshLocals

\* ------------------------------------------------------ SpecRate: the inputs
\* Fingerprints of reporting machines: this worker's, one that differs in the
\* first field, one that differs in the last, and one with a field less.
ReportMachines ==
    {LocalMachine,
     <<"Fedora", "14.04", "i686", "3.13.0", "arando">>,
     <<"Ubuntu", "14.04", "i686", "3.13.0", "desktop">>,
     <<"Ubuntu", "14.04", "i686", "3.13.0">>}

\* A report: its machine, whether it carries git_base, the rev-list count
\* "<git_base>..patchbot/base" (-1 when the commit is unknown, line 640), and
\* its status.
Reports ==
    [machine : ReportMachines, has_git_base : {TRUE}, behind : {0, 1, -1},
     status : {"TestsPassed", "ApplyFailed"}]
    \cup
    [machine : ReportMachines, has_git_base : {FALSE}, behind : {0},
     status : {"TestsPassed", "ApplyFailed"}]

SeqsUpTo(S, n) == UNION {[1..k -> S] : k \in 0..n}

\* A report of a machine that differs in the first field.
DifferingReport ==
    [machine |-> <<"Fedora", "14.04", "i686", "3.13.0", "arando">>,
     has_git_base |-> TRUE, behind |-> 0, status |-> "TestsPassed"]

\* Tickets that vary the fields of rules 1-6, without reports or with one.
BasicTickets ==
    [id : TicketIds, git_branch : BOOLEAN,
     status : {"needs_review", "needs_work", "closed"},
     milestone : {"sage-6.5", "sage-wishlist"},
     authors : {<<>>, <<"alice">>, <<"mallory">>},
     participants : {<<>>, <<"bob">>, <<"mallory">>},
     component : {""}, priority : {"major"}, retry : {FALSE},
     reports : {<<>>, <<DifferingReport>>}]

\* Tickets that pass rules 2-5 and vary the prior reports.
ReportTickets ==
    [id : {0, 7}, git_branch : {TRUE}, status : {"needs_review"},
     milestone : {"sage-6.5"}, authors : {<<"alice">>},
     participants : {<<>>}, component : {""}, priority : {"major"},
     retry : BOOLEAN, reports : SeqsUpTo(Reports, MaxReports)]

RateTickets == BasicTickets \cup ReportTickets

InitRate ==
    /\ PipeIdle
    /\ rticket \in RateTickets
    /\ rated = <<>>
    /\ rconfig \in Configs
    /\ now = 0
    /\ to_skip = EmptyLedger
    /\ spc = "idle"
    /\ counter = 0
    /\ served = <<>>
    /\ pass = <<>>

\* The call rate_ticket(rticket) on a fresh worker.
RateTicket ==
    /\ rated = <<>>
    /\ rated' = <<rate_ticket(rticket, rconfig, to_skip, now)>>
    /\ UNCHANGED <<rticket, rconfig, selVars, pipeVars, mainVars>>

NextRate == RateTicket

SpecRate == InitRate /\ [][NextRate]_vars

\* ------------------------------------------------------------ C6, C7
\* The report's fingerprint equals this worker's on the matched fields.
SameMachine(report, config) ==
    Take(report.machine, config.machine_match)
        = Take(config.machine, config.machine_match)

\* The ticket reaches the report loop: rules 1-5 pass and retry is unset.
ReachesScan(ticket, config) ==
    /\ ticket.id # 0
    /\ ticket.git_branch
    /\ ticket.status \in AllowedStatus
    /\ ticket.milestone \notin ExcludedMilestones
    /\ AllTrusted(ticket.authors, config)
    /\ AllTrusted(ticket.participants, config)
    /\ ~ticket.retry

\* C6 (as claimed): a prior report from an identical machine whose status is
\* not ApplyFailed makes rate_ticket return None, whatever the report's base
\* commit is relative to the worker's base.
C6_IdenticalReportBlocks ==
    \A k \in 1..Len(rated) :
        LET t == rticket
        IN (/\ t.id # 0
            /\ ~t.retry
            /\ \E i \in 1..Len(t.reports) :
                  /\ SameMachine(t.reports[i], rconfig)
                  /\ t.reports[i].status # "ApplyFailed")
           => rated[k].kind = "none"

\* C6 (amended): a prior report from an identical machine, not ApplyFailed,
\* that carries a base commit the worker's base is zero commits ahead of,
\* keeps rate_ticket from returning a score for a ticket with id # 0 and no
\* retry flag: it returns None (or raises on the unbound only_in_base when the
\* first report scanned has no base commit).
C6_IdenticalReportAtBaseBlocks ==
    \A k \in 1..Len(rated) :
        LET t == rticket
        IN (/\ t.id # 0
            /\ ~t.retry
            /\ \E i \in 1..Len(t.reports) :
                  /\ SameMachine(t.reports[i], rconfig)
                  /\ t.reports[i].status # "ApplyFailed"
                  /\ t.reports[i].has_git_base
                  /\ t.reports[i].behind = 0)
           => /\ rated[k].kind # "score"
              /\ rated[k].kind = "none" => rated[k].rule = "unique"
              /\ rated[k].kind = "raise" => ~t.reports[1].has_git_base

\* C6 witness: ticket 7 with one TestsPassed report of this very machine at
\* the worker's base is rated None by the uniqueness rule.
C6_Witness ==
    /\ rated # <<>>
    /\ rticket.id = 7
    /\ rticket.reports =
          <<[machine |-> LocalMachine, has_git_base |-> TRUE, behind |-> 0,
             status |-> "TestsPassed"]>>
    /\ rated[1].kind = "none"
    /\ rated[1].rule = "unique"

\* only_in_base as line 648 reads it in iteration i: the count of the last
\* report up to i that carries git_base.
RECURSIVE BehindAt(_, _)
BehindAt(reports, i) ==
    IF reports[i].has_git_base THEN reports[i].behind ELSE BehindAt(reports, i - 1)

\* The vector folded in for report i.
FoldedVector(reports, i, config) ==
    IF BehindAt(reports, i) # 0 /\ SameMachine(reports[i], config)
    THEN BehindVector
    ELSE PyList(compare_machines(reports[i].machine, config.machine,
                                 config.machine_match))

\* C7 (as claimed): the uniqueness component is the field-wise minimum of the
\* vectors of the prior reports that are not apply failures, so a ticket with
\* prior reports gets a score only if on one single field this worker differs
\* from every such report.
C7_FieldwiseMinimum ==
    \A k \in 1..Len(rated) :
        LET t == rticket
            n == Len(t.reports)
            counted == {i \in 1..n : t.reports[i].status # "ApplyFailed"}
            vec(i) == FoldedVector(t.reports, i, rconfig).v
        IN (/\ ReachesScan(t, rconfig)
            /\ n > 0
            /\ rated[k].kind = "score")
           => /\ \E f \in 1..MachineLen :
                    \A i \in counted : f <= Len(vec(i)) /\ vec(i)[f] # 0
              /\ counted # {}
                 => \A f \in 1..Len(rated[k].uniqueness.v) :
                       rated[k].uniqueness.v[f] # 0
                       <=> \A i \in counted : f <= Len(vec(i)) /\ vec(i)[f] # 0

\* C7 (amended): the uniqueness component is the minimum in Python's sequence
\* order (lexicographic, every list below every tuple) of the vectors of all
\* relevant prior reports, apply failures included; the ticket is rejected as
\* not unique exactly when one of these vectors is zero on every field.
C7_LexicographicMinimum ==
    \A k \in 1..Len(rated) :
        LET t == rticket
            r == rated[k]
            n == Len(t.reports)
        IN (/\ ReachesScan(t, rconfig)
            /\ n > 0
            /\ r.kind # "raise")
           => /\ \E i \in 1..n : r.uniqueness = FoldedVector(t.reports, i, rconfig)
              /\ \A i \in 1..n :
                    PyCmp(r.uniqueness, FoldedVector(t.reports, i, rconfig)) <= 0
              /\ (r.kind = "none" /\ r.rule = "unique")
                 <=> \E i \in 1..n :
                        \A f \in 1..Len(FoldedVector(t.reports, i, rconfig).v) :
                            FoldedVector(t.reports, i, rconfig).v[f] = 0

\* C7 witness: two reports that differ from this worker on different fields
\* leave the ticket testable, with the lexicographically smaller vector.
C7_Witness ==
    /\ rated # <<>>
    /\ Len(rticket.reports) = 2
    /\ rticket.reports[1].machine[1] = "Fedora"
    /\ Len(rticket.reports[2].machine) = MachineLen
    /\ rticket.reports[2].machine[5] = "desktop"
    /\ rticket.reports[1].status = "TestsPassed"
    /\ rticket.reports[2].status = "TestsPassed"
    /\ ~rticket.retry
    /\ rticket.id = 7
    /\ rated[1].kind = "score"
    /\ rated[1].uniqueness = PyList(<<0, 0, 0, 0, 1>>)

\* ------------------------------------------------------------ C11, C13
\* Some identity of the list is not in the trusted set.
SomeUntrusted(names, config) ==
    \E i \in 1..Len(names) : names[i] \notin config.trusted_authors

\* C11: a ticket with id # 0 that has no branch, or whose status is not one
\* of needs_review, positive_review, needs_info, needs_work, or whose milestone
\* is excluded, or that has an untrusted author or participant, is rated None,
\* whatever the bonus table and the prior reports.
C11_UntestableRatedNone ==
    \A k \in 1..Len(rated) :
        (/\ rticket.id # 0
         /\ \/ ~rticket.git_branch
            \/ rticket.status \notin {"needs_review", "positive_review",
                                      "needs_info", "needs_work"}
            \/ rticket.milestone \in ExcludedMilestones
            \/ SomeUntrusted(rticket.authors, rconfig)
            \/ SomeUntrusted(rticket.participants, rconfig))
        => /\ rated[k].kind = "none"
           /\ rated[k].rule \in {"no_branch", "status", "milestone", "author",
                                 "participant"}
           /\ rated[k].to_skip = to_skip

\* C11 witness: a closed ticket with a branch, trusted identities and a prior
\* report, under a table that gives the closed status a bonus of 5000, is
\* rated None by the status rule.
C11_Witness ==
    /\ rated # <<>>
    /\ rticket.id = 42
    /\ rticket.git_branch
    /\ rticket.status = "closed"
    /\ rticket.milestone = "sage-6.5"
    /\ rticket.authors = <<"alice">>
    /\ rticket.participants = <<"bob">>
    /\ rticket.reports # <<>>
    /\ rconfig.bonus = WideBonus
    /\ rated[1].kind = "none"
    /\ rated[1].rule = "status"

\* The ticket of the scenario: id 42, needs_review, one trusted author whose
\* configured bonus is 1000, no prior reports.
Scenario42 ==
    /\ rticket.id = 42
    /\ rticket.status = "needs_review"
    /\ Len(rticket.authors) = 1
    /\ rticket.authors[1] \in rconfig.trusted_authors
    /\ BonusGet(rconfig.bonus, rticket.authors[1]) = 1000
    /\ rticket.reports = <<>>

\* The scenario ticket passes the rules the scenario does not name: it has a
\* branch, a milestone that is not excluded, trusted participants, and no
\* skip entry.
Scenario42Ordinary ==
    /\ Scenario42
    /\ rticket.git_branch
    /\ rticket.milestone \notin ExcludedMilestones
    /\ ~SomeUntrusted(rticket.participants, rconfig)
    /\ rticket.component = ""
    /\ to_skip[42] = NoEntry

\* C13 (as claimed): the scenario ticket gets a score whose rating is at
\* least 1000 + bonus[needs_review] + 2 * 1000.
C13_RatingAtLeast ==
    \A k \in 1..Len(rated) :
        Scenario42Ordinary
        => /\ rated[k].kind = "score"
           /\ rated[k].rating >= 1000 + rconfig.bonus["needs_review"] + 2 * 1000

\* C13 (amended): the scenario ticket, when it also has a branch, a milestone
\* that is not excluded, trusted participants and no skip entry, gets the
\* score ((100,), rating, -42) whose rating is exactly 2 * 1000 +
\* bonus[needs_review] plus the bonuses configured for its participants, its
\* priority and the key "42": 3010 under the default table extended by the
\* author's bonus.
C13_RatingIsSumOfBonuses ==
    \A k \in 1..Len(rated) :
        Scenario42Ordinary
        => /\ rated[k].kind = "score"
           /\ rated[k].uniqueness = PyTuple(<<100>>)
           /\ rated[k].tiebreak = 0 - 42
           /\ rated[k].rating =
                 2 * 1000 + rconfig.bonus["needs_review"]
                 + SumBonus(rticket.participants, rconfig.bonus)
                 + BonusGet(rconfig.bonus, rticket.priority)
                 + BonusGet(rconfig.bonus, "42")
           /\ (rconfig.bonus = AuthorBonus /\ rticket.priority = "major")
              => rated[k].rating = 3010

\* C13 witness: the scenario ticket is rated 3010 under the default table
\* extended by the author's bonus of 1000.
C13_Witness ==
    /\ rated # <<>>
    /\ Scenario42
    /\ rticket.git_branch
    /\ rticket.participants = <<>>
    /\ rconfig.bonus = AuthorBonus
    /\ rated[1].kind = "score"
    /\ rated[1].rating = 3010

\* ------------------------------------------------- SpecSelect: get_ticket
\* The fetch loop's retry count (line 528).
FetchRetries == 10

\* cmp of two (uniqueness, rating, -id) tuples, as all.sort() compares them.
ScoreCmp(a, b) ==
    LET c == PyCmp(a.uniqueness, b.uniqueness)
    IN IF c # 0 THEN c
       ELSE IF a.rating # b.rating THEN (IF a.rating < b.rating THEN -1 ELSE 1)
       ELSE IF a.tiebreak # b.tiebreak
            THEN (IF a.tiebreak < b.tiebreak THEN -1 ELSE 1)
       ELSE 0

\* Line 544, the generator: rate_ticket on each served ticket in turn, the
\* ledger threaded through; a call that raises ends the pass.
RECURSIVE RateAll(_, _, _, _)
RateAll(list, skip, t, acc) ==
    IF list = <<>> THEN [results |-> acc, to_skip |-> skip, raised |-> FALSE]
    ELSE LET r == rate_ticket(Head(list), DefaultConfig, skip, t)
         IN IF r.kind = "raise"
            THEN [results |-> Append(acc, r), to_skip |-> r.to_skip, raised |-> TRUE]
            ELSE RateAll(Tail(list), r.to_skip, t, Append(acc, r))

\* Line 544, the filter: the indices of the tickets whose rating is not None.
Testable(results) == {k \in 1..Len(results) : results[k].kind = "score"}

\* Line 547: all.sort(), as the ascending sequence of the kept indices.
RECURSIVE InsertSorted(_, _, _)
InsertSorted(sorted, k, results) ==
    IF sorted = <<>> THEN <<k>>
    ELSE IF ScoreCmp(results[k], results[Head(sorted)]) < 0
         THEN <<k>> \o sorted
         ELSE <<Head(sorted)>> \o InsertSorted(Tail(sorted), k, results)

RECURSIVE SortKept(_, _, _)
SortKept(i, results, sorted) ==
    IF i > Len(results) THEN sorted
    ELSE SortKept(i + 1, results,
                  IF results[i].kind = "score"
                  THEN InsertSorted(sorted, i, results) ELSE sorted)

\* A mutant of PickBest: all[0] instead of all[-1].
PickFirst(results) ==
    LET all == SortKept(1, results, <<>>)
    IN IF all # <<>> THEN all[1] ELSE 0

\* Lines 547-551: the index of the ticket returned, 0 for None.
PickBest(results) ==
    LET all == SortKept(1, results, <<>>)
    IN IF all # <<>> THEN all[Len(all)] ELSE 0

\* The tickets the coordinator serves: for each id a ticket without reports,
\* and for each id but 0 one of priority minor, one with a report of a machine
\* that differs in the first field, and one without a branch.
ServedTickets ==
    [id : TicketIds, git_branch : {TRUE}, status : {"needs_review"},
     milestone : {"sage-6.5"}, authors : {<<"alice">>},
     participants : {<<>>}, component : {""}, priority : {"major"},
     retry : {FALSE}, reports : {<<>>}]
    \cup
    [id : TicketIds \ {0}, git_branch : {TRUE}, status : {"needs_review"},
     milestone : {"sage-6.5"}, authors : {<<"alice">>},
     participants : {<<>>}, component : {""}, priority : {"minor"},
     retry : {FALSE}, reports : {<<>>}]
    \cup
    [id : TicketIds \ {0}, git_branch : {TRUE}, status : {"needs_review"},
     milestone : {"sage-6.5"}, authors : {<<"alice">>},
     participants : {<<>>}, component : {""}, priority : {"major"},
     retry : {FALSE}, reports : {<<DifferingReport>>}]
    \cup
    [id : TicketIds \ {0}, git_branch : {FALSE}, status : {"needs_review"},
     milestone : {"sage-6.5"}, authors : {<<"alice">>},
     participants : {<<>>}, component : {""}, priority : {"major"},
     retry : {FALSE}, reports : {<<>>}]

\* The served lists: up to MaxCandidates tickets with distinct ids.
ServedLists ==
    {l \in SeqsUpTo(ServedTickets, MaxCandidates) :
        \A i, j \in 1..Len(l) : i # j => l[i].id # l[j].id}

\* The retry delays a skip entry is written with.
SkipDelays == 0..MaxDelay

PassRecord(list, before, results, ret, pick) ==
    [time |-> now, before |-> before, list |-> list, results |-> results,
     ret |-> ret, pick |-> pick]

RateIdle ==
    /\ rticket \in {t \in BasicTickets : t.id = 0 /\ t.git_branch
                       /\ t.status = "needs_review" /\ t.milestone = "sage-6.5"
                       /\ t.authors = <<>> /\ t.participants = <<>>
                       /\ t.reports = <<>>}
    /\ rated = <<>>
    /\ rconfig = DefaultConfig

InitSelect ==
    /\ RateIdle
    /\ PipeIdle
    /\ now = 0
    /\ to_skip = EmptyLedger
    /\ spc = "idle"
    /\ counter = 0
    /\ served = <<>>
    /\ pass = <<>>

\* time.time() advances.
Tick ==
    /\ now < MaxTime
    /\ now' = now + 1
    /\ pass' = <<>>
    /\ UNCHANGED <<mainVars, pipeVars, rateVars, to_skip, spc, counter, served>>

\* A run of test_a_ticket on ticket id that ends in a handler writing the
\* ledger (lines 856, 859, 866; line 754): to_skip[id] = time.time() + delay.
SkipTicketRun ==
    /\ spc = "idle"
    /\ \E id \in TicketIds, d \in SkipDelays :
          to_skip' = [to_skip EXCEPT ![id] = now + d]
    /\ pass' = <<>>
    /\ UNCHANGED <<mainVars, pipeVars, rateVars, now, spc, counter, served>>

\* get_ticket is called: lines 525-529.
GetTicketCall ==
    /\ spc = "idle"
    /\ spc' = "fetch"
    /\ counter' = FetchRetries
    /\ pass' = <<>>
    /\ UNCHANGED <<mainVars, pipeVars, rateVars, now, to_skip, served>>

\* Lines 530-537: the fetch fails with an HTTPError; one retry less.
FetchFail ==
    /\ spc = "fetch"
    /\ counter > 0
    /\ counter' = counter - 1
    /\ UNCHANGED <<mainVars, pipeVars, rateVars, now, to_skip, spc, served, pass>>

\* Lines 532, 538-539: the coordinator serves a list.
FetchOk ==
    /\ spc = "fetch"
    /\ counter > 0
    /\ \E l \in ServedLists : served' = l
    /\ spc' = "rate"
    /\ counter' = 0
    /\ UNCHANGED <<mainVars, pipeVars, rateVars, now, to_skip, pass>>

\* Line 532: load_json_from_server raises something that is no
\* urllib2.HTTPError (urllib2.URLError, socket.error, the ValueError of
\* json.load); nothing in get_ticket catches it.
FetchError ==
    /\ spc = "fetch"
    /\ counter > 0
    /\ spc' = "idle"
    /\ pass' = <<PassRecord(<<>>, to_skip, <<>>, "raise", 0)>>
    /\ UNCHANGED <<mainVars, pipeVars, rateVars, now, to_skip, counter, served>>

\* get_ticket without the else clause of lines 540-541: no ticket.
FetchGiveUpReturnsNone ==
    /\ spc = "fetch"
    /\ counter = 0
    /\ spc' = "idle"
    /\ pass' = <<PassRecord(<<>>, to_skip, <<>>, "none", 0)>>
    /\ UNCHANGED <<mainVars, pipeVars, rateVars, now, to_skip, counter, served>>

\* Lines 540-541: the retries are used up, RuntimeError.
FetchGiveUp ==
    /\ spc = "fetch"
    /\ counter = 0
    /\ spc' = "idle"
    /\ pass' = <<PassRecord(<<>>, to_skip, <<>>, "raise", 0)>>
    /\ UNCHANGED <<mainVars, pipeVars, rateVars, now, to_skip, counter, served>>

\* Lines 543-551: rate, filter, sort, return the last.
RateAndPick ==
    /\ spc = "rate"
    /\ LET p == RateAll(served, to_skip, now, <<>>)
           best == PickBest(p.results)
       IN /\ to_skip' = p.to_skip
          /\ pass' = <<PassRecord(served, to_skip, p.results,
                                  IF p.raised THEN "raise"
                                  ELSE IF best = 0 THEN "none" ELSE "ticket",
                                  IF p.raised THEN 0 ELSE best)>>
    /\ spc' = "idle"
    /\ served' = <<>>
    /\ UNCHANGED <<mainVars, pipeVars, rateVars, now, counter>>

NextSelect ==
    \/ Tick
    \/ SkipTicketRun
    \/ GetTicketCall
    \/ FetchFail
    \/ FetchOk
    \/ FetchError
    \/ FetchGiveUp
    \/ RateAndPick

SpecSelect == InitSelect /\ [][NextSelect]_vars

\* ------------------------------------------------------------ C8, C9, C10
\* The ledger entry of served ticket k when the pass began (the ids of a
\* served list are distinct, so no other rating of the pass touched it).
EntryBefore(r, k) == r.before[r.list[k].id]

\* C8 (as claimed): with a skip entry for a ticket (id # 0) whose not-before
\* time is u, a rating at a probe time strictly before u is blocked (None, the
\* ticket is not returned), and at a probe time equal to or later than u the
\* ledger no longer blocks it.
C8_BlockedStrictlyBefore ==
    \A p \in 1..Len(pass) :
        \A k \in 1..Len(pass[p].results) :
            LET r == pass[p]
                u == EntryBefore(r, k)
            IN (r.list[k].id # 0 /\ u # NoEntry)
               => /\ r.time < u => (r.results[k].kind = "none" /\ r.pick # k)
                  /\ r.time >= u => r.results[k].rule # "skipped"

\* C8 (amended): the entry blocks the rating at every probe time up to and
\* including u, and no longer blocks it at any probe time strictly later than
\* u.
C8_BlockedUpToAndIncluding ==
    \A p \in 1..Len(pass) :
        \A k \in 1..Len(pass[p].results) :
            LET r == pass[p]
                u == EntryBefore(r, k)
            IN (r.list[k].id # 0 /\ u # NoEntry)
               => /\ r.time <= u => (r.results[k].kind = "none" /\ r.pick # k)
                  /\ r.time > u => r.results[k].rule # "skipped"

\* C8 witness: a ticket rated at exactly the not-before time of its entry is
\* blocked by the ledger.
C8_Witness ==
    /\ pass # <<>>
    /\ \E k \in 1..Len(pass[1].results) :
          /\ pass[1].list[k].id # 0
          /\ EntryBefore(pass[1], k) = pass[1].time
          /\ pass[1].results[k].rule = "skipped"
          /\ pass[1].ret = "none"

\* C9 (as claimed): after a get_ticket pass at time t, the ledger holds no
\* entry earlier than t for any rated ticket, whichever rule decided its
\* rating.
C9_NoPastDueAfterRating ==
    \A p \in 1..Len(pass) :
        \A k \in 1..Len(pass[p].results) :
            LET id == pass[p].list[k].id
            IN to_skip[id] = NoEntry \/ to_skip[id] >= pass[p].time

\* C9 (amended): after a get_ticket pass at time t, the ledger holds no entry
\* earlier than t for any ticket whose rating reached the ledger rule (rules
\* 1-8 did not decide it); an expired entry of such a ticket has been removed.
C9_NoPastDueAfterConsult ==
    \A p \in 1..Len(pass) :
        \A k \in 1..Len(pass[p].results) :
            LET id == pass[p].list[k].id
            IN pass[p].results[k].rule \in {"skipped", "score"}
               => /\ to_skip[id] = NoEntry \/ to_skip[id] >= pass[p].time
                  /\ (EntryBefore(pass[p], k) # NoEntry
                      /\ EntryBefore(pass[p], k) < pass[p].time)
                     => to_skip[id] = NoEntry

\* C9 witness: a ticket with an expired entry got its score and the entry is
\* gone.
C9_Witness ==
    /\ pass # <<>>
    /\ \E k \in 1..Len(pass[1].results) :
          /\ EntryBefore(pass[1], k) # NoEntry
          /\ EntryBefore(pass[1], k) < pass[1].time
          /\ pass[1].results[k].rule = "score"
          /\ to_skip[pass[1].list[k].id] = NoEntry

\* (uniqueness, rating, -id) of a is lexicographically below that of b.
LexBelow(a, ida, b, idb) ==
    \/ PyCmp(a.uniqueness, b.uniqueness) < 0
    \/ /\ PyCmp(a.uniqueness, b.uniqueness) = 0
       /\ \/ a.rating < b.rating
          \/ a.rating = b.rating /\ 0 - ida < 0 - idb

Reorderings(list) ==
    {q \in [1..Len(list) -> {list[i] : i \in 1..Len(list)}] :
        \A i \in 1..Len(list) : \E j \in 1..Len(list) : q[j] = list[i]}

\* C10: get_ticket returns None exactly when no served ticket is testable;
\* otherwise it returns a testable ticket whose (uniqueness, rating, -id) no
\* other testable ticket exceeds, the lowest id among those of equal
\* uniqueness and rating, and the same ticket for every order of the list.
C10_PickBestIsMaximum ==
    \A p \in 1..Len(pass) :
        LET r == pass[p]
            T == Testable(r.results)
        IN r.ret # "raise"
           => /\ r.ret = "none" <=> T = {}
              /\ r.ret = "none" <=> r.pick = 0
              /\ r.ret = "ticket"
                 => /\ r.pick \in T
                    /\ \A j \in T \ {r.pick} :
                          LexBelow(r.results[j], r.list[j].id,
                                   r.results[r.pick], r.list[r.pick].id)
                    /\ \A j \in T :
                          (/\ r.results[j].uniqueness = r.results[r.pick].uniqueness
                           /\ r.results[j].rating = r.results[r.pick].rating)
                          => r.list[r.pick].id <= r.list[j].id
              /\ \A q \in Reorderings(r.list) :
                    LET b == PickBest(RateAll(q, r.before, r.time, <<>>).results)
                    IN IF r.pick = 0 THEN b = 0
                       ELSE b # 0 /\ q[b] = r.list[r.pick]

\* C10 witness: two testable tickets of equal uniqueness and rating were
\* served with the higher id first, and the lower id is returned.
C10_Witness ==
    /\ pass # <<>>
    /\ pass[1].ret = "ticket"
    /\ Len(pass[1].list) = 2
    /\ pass[1].list[1].id = 42
    /\ pass[1].list[2].id = 7
    /\ pass[1].results[1].kind = "score"
    /\ pass[1].results[2].kind = "score"
    /\ pass[1].results[1].uniqueness = pass[1].results[2].uniqueness
    /\ pass[1].results[1].rating = pass[1].results[2].rating
    /\ pass[1].pick = 2

\* ------------------------------------------------------------ C12
\* C12: the baseline, ticket 0, is always rated with the one sentinel score
\* (100, 100, 0), and no score of a ticket with id # 0 compares greater than
\* it in the order get_ticket sorts by: served together with other testable
\* tickets, the baseline is the one returned.
C12_BaselineSentinelMaximal ==
    \A p \in 1..Len(pass) :
        \A k \in 1..Len(pass[p].results) :
            pass[p].list[k].id = 0
            => /\ pass[p].results[k].kind = "score"
               /\ pass[p].results[k].uniqueness = PyInt(100)
               /\ pass[p].results[k].rating = 100
               /\ pass[p].results[k].tiebreak = 0
               /\ \A j \in Testable(pass[p].results) :
                     ScoreCmp(pass[p].results[j], pass[p].results[k]) <= 0
               /\ pass[p].ret = "ticket" => pass[p].pick = k

\* The part of C12 that holds: the sentinel is fixed, whatever the ledger
\* holds for ticket 0 and whatever is served with it.
C12_SentinelFixed ==
    \A p \in 1..Len(pass) :
        \A k \in 1..Len(pass[p].results) :
            pass[p].list[k].id = 0
            => /\ pass[p].results[k].kind = "score"
               /\ pass[p].results[k].uniqueness = PyInt(100)
               /\ pass[p].results[k].rating = 100
               /\ pass[p].results[k].tiebreak = 0

\* The baseline was served with testable ticket 7, whose score compares
\* greater, and ticket 7 is returned.
C12_Witness ==
    /\ pass # <<>>
    /\ Len(pass[1].list) = 2
    /\ pass[1].list[1].id = 0
    /\ pass[1].list[2].id = 7
    /\ pass[1].results[1].kind = "score"
    /\ pass[1].results[2].kind = "score"
    /\ ScoreCmp(pass[1].results[2], pass[1].results[1]) > 0
    /\ pass[1].pick = 2

\* ============================================================ the pipeline
\* The clock counts hours: 60 * 60 seconds (line 856) is one tick.
NetworkRetryDelay == 1
\* 12 * 60 * 60 seconds (lines 754 and 866).
LongRetryDelay == 12
\* range(5), line 869.
ReportRetries == 5

\* The table with the statuses of `applied` and `built` exchanged.
status_exchanged ==
    [s \in {"started", "applied", "built", "tested",
            "tests_passed_plugins_failed", "plugins", "plugins_failed",
            "spkg", "network_error", "skipped"} |->
        CASE s = "started" -> "ApplyFailed"
          [] s = "applied" -> "TestsFailed"
          [] s = "built" -> "BuildFailed"
          [] s = "tested" -> "TestsPassed"
          [] s = "tests_passed_plugins_failed" -> "PluginFailed"
          [] s = "plugins" -> "PluginOnly"
          [] s = "plugins_failed" -> "PluginOnlyFailed"
          [] s = "spkg" -> "Spkg"
          [] OTHER -> "Pending"]

\* The module-level table `status`: pipeline state -> reported status.
status ==
    [s \in {"started", "applied", "built", "tested",
            "tests_passed_plugins_failed", "plugins", "plugins_failed",
            "spkg", "network_error", "skipped"} |->
        CASE s = "started" -> "ApplyFailed"
          [] s = "applied" -> "BuildFailed"
          [] s = "built" -> "TestsFailed"
          [] s = "tested" -> "TestsPassed"
          [] s = "tests_passed_plugins_failed" -> "PluginFailed"
          [] s = "plugins" -> "PluginOnly"
          [] s = "plugins_failed" -> "PluginOnlyFailed"
          [] s = "spkg" -> "Spkg"
          [] OTHER -> "Pending"]

\* Exceptions, by the except clause that catches them:
\*   "transport"  urllib2.HTTPError, socket.error (line 850; both IOErrors)
\*   "config"     ConfigException (line 850)
\*   "skip"       SkipTicket, carrying seconds_till_retry (line 858)
\*   "ioerror"    any other IOError, urllib2.URLError included (lines 862, 877)
\*   "error"      any other Exception (line 862)
\*   "abort"      KeyboardInterrupt, SystemExit (line 864)
Exc(kind) == [kind |-> kind, seconds |-> 0]
SkipTicket(seconds) == [kind |-> "skip", seconds |-> seconds]

\* except IOError, line 877.
IsIOError(e) == e.kind \in {"transport", "ioerror"}

\* What pull_from_trac raises.
PullRaises ==
    {Exc(k) : k \in {"transport", "config", "ioerror", "error", "abort"}}
        \cup {SkipTicket(d) : d \in SkipDelays}

\* What do_or_die raises: its exn_class, Exception; or the run is aborted.
DoOrDieRaises == {Exc("error"), Exc("abort")}

\* What Tee.__enter__ raises: the OSError of a failed Popen or dup.
EnterRaises == {Exc("error"), Exc("abort")}

\* report_ticket, line 1040: whether post_multipart is called.
WillPostAlways(report_status, dry) == TRUE

WillPost(report_status, dry) == ~dry \/ report_status = "Pending"

\* How a call of report_ticket ends: "ok"; an IOError ("ioerror": of
\* post_multipart when it is called, a urllib2.URLError; of the history or
\* log file otherwise); post_multipart raising a transport error or another
\* exception; an abort.
ReportOutcomes(report_status, dry) ==
    {"ok", "ioerror", "abort"}
        \cup (IF WillPost(report_status, dry) THEN {"transport", "error"} ELSE {})

\* The record of one call report_ticket(ticket, status, ..., dry_run=dry,
\* pending_status=pending), with whether it calls post_multipart; what the
\* call may raise, it raises there or in the file reads just before.
report_ticket(report_status, pending, dry, final) ==
    [status |-> report_status, pending_status |-> pending, dry_run |-> dry,
     final |-> final, posted |-> WillPost(report_status, dry)]

Label(name, n) == [label |-> name, n |-> n]

\* The baseline and one ticket.
JobIds == {0, 7}

\* The baseline has no spkgs.
Jobs ==
    {j \in [id : JobIds, git_branch : BOOLEAN, spkgs : 0..MaxSpkgs] :
        j.id = 0 => j.spkgs = 0}

\* A worker on which test_a_ticket(ticket) is called.  The worker's
\* environment holds SAGE_ROOT or not: --sage-root names the directory
\* (lines 1056-1058), and an earlier run may have set the variable.
Init ==
    /\ RateIdle
    /\ now \in 0..MaxTime
    /\ to_skip = EmptyLedger
    /\ spc = "idle"
    /\ counter = 0
    /\ served = <<>>
    /\ pass = <<>>
    /\ MainIdle
    /\ job \in Jobs
    /\ dry_run \in BOOLEAN
    /\ plugin_only \in BOOLEAN
    /\ environ \in BOOLEAN
    /\ pc = "call"
    /\ FreshLocals

\* An exception leaves the with block: Tee.__exit__ runs first.
RaiseInTee(e) ==
    /\ exc' = e
    /\ pc' = "tee_exit"

\* Lines 692-732: the branch check.
TestATicket ==
    /\ pc = "call"
    /\ IF ~(job.git_branch \/ job.id = 0)
       THEN pc' = "returned" /\ returned' = "None"
       ELSE pc' = "pending" /\ UNCHANGED returned
    /\ UNCHANGED <<mainVars, rateVars, selVars, job, dry_run, plugin_only, environ,
                   state, exc, plugins_results, plugins_passed, res, passed,
                   attempt, calls, stages, plugin_failed, timer, patch_dir>>

\* Lines 733-735: the first Pending report, outside the try.
ReportPending ==
    /\ pc = "pending"
    /\ IF plugin_only
       THEN pc' = "enter" /\ UNCHANGED <<calls, exc>>
       ELSE \E o \in ReportOutcomes("Pending", FALSE) :
               /\ calls' = Append(calls,
                      report_ticket("Pending", "None", FALSE, FALSE))
               /\ IF o = "ok"
                  THEN pc' = "enter" /\ UNCHANGED exc
                  ELSE pc' = "raised" /\ exc' = Exc(o)
    /\ UNCHANGED <<mainVars, rateVars, selVars, job, dry_run, plugin_only, environ,
                   state, plugins_results, plugins_passed, res, passed,
                   attempt, stages, plugin_failed, timer, patch_dir,
                   returned>>

\* Lines 736-742 and 756-762: Timer(), Tee.__enter__ (which starts the tee
\* subprocess and may fail with an OSError), the banner, the first
\* assignment of `state`, the environment.
EnterTee ==
    /\ pc = "enter"
    /\ \/ /\ state' = IF job.spkgs > 0 THEN "spkg" ELSE "started"
          /\ environ' = (environ \/ job.spkgs = 0)
          /\ pc' = IF job.spkgs > 0 THEN "spkg" ELSE "apply"
          /\ UNCHANGED exc
       \/ /\ \E e \in EnterRaises : exc' = e
          /\ pc' = "handle"
          /\ UNCHANGED <<state, environ>>
    /\ UNCHANGED <<mainVars, rateVars, selVars, job, dry_run, plugin_only,
                   plugins_results, plugins_passed, res, passed, attempt,
                   calls, stages, plugin_failed, timer, patch_dir, returned>>

\* Lines 745-753: one check_spkg, whose exceptions are printed and dropped;
\* its temporary directory is removed in its finally (lines 979-981).
CheckSpkg ==
    /\ pc = "spkg"
    /\ Len(timer) < job.spkgs
    /\ \/ /\ timer' = Append(timer, Label("spkg", Len(timer) + 1))
          /\ UNCHANGED <<pc, exc>>
       \/ /\ RaiseInTee(Exc("abort"))
          /\ UNCHANGED timer
    /\ UNCHANGED <<mainVars, rateVars, selVars, job, dry_run, plugin_only, environ,
                   state, plugins_results, plugins_passed, res, passed,
                   attempt, calls, stages, plugin_failed, patch_dir,
                   returned>>

\* Line 754: spkg tickets are not looked at again for twelve hours.
SpkgDone ==
    /\ pc = "spkg"
    /\ Len(timer) = job.spkgs
    /\ to_skip' = [to_skip EXCEPT ![job.id] = now + LongRetryDelay]
    /\ pc' = "tee_exit"
    /\ UNCHANGED <<mainVars, rateVars, now, spc, counter, served, pass, job, dry_run,
                   plugin_only, environ, state, exc, plugins_results,
                   plugins_passed, res, passed, attempt, calls, stages,
                   plugin_failed, timer, patch_dir, returned>>

\* Lines 763-767: pull_from_trac; `state` advances once it has returned.
Apply ==
    /\ pc = "apply"
    /\ \/ /\ timer' = Append(timer, Label("Apply", 0))
          /\ state' = "applied"
          /\ stages' = Append(stages, [stage |-> "apply", outcome |-> "ok"])
          /\ pc' = "report_applied"
          /\ UNCHANGED exc
       \/ \E e \in PullRaises :
             /\ stages' = Append(stages, [stage |-> "apply", outcome |-> e.kind])
             /\ RaiseInTee(e)
             /\ UNCHANGED <<timer, state>>
    /\ UNCHANGED <<mainVars, rateVars, selVars, job, dry_run, plugin_only, environ,
                   plugins_results, plugins_passed, res, passed, attempt,
                   calls, plugin_failed, patch_dir, returned>>

\* A progress report inside the try (lines 768-770, 776-778): skipped in
\* plugin-only mode; what it raises leaves the with block.
Progress(here, next) ==
    /\ pc = here
    /\ IF plugin_only
       THEN pc' = next /\ UNCHANGED <<calls, exc>>
       ELSE \E o \in ReportOutcomes("Pending", FALSE) :
               /\ calls' = Append(calls,
                      report_ticket("Pending", state, FALSE, FALSE))
               /\ IF o = "ok"
                  THEN pc' = next /\ UNCHANGED exc
                  ELSE RaiseInTee(Exc(o))
    /\ UNCHANGED <<mainVars, rateVars, selVars, job, dry_run, plugin_only, environ,
                   state, plugins_results, plugins_passed, res, passed,
                   attempt, stages, plugin_failed, timer, patch_dir,
                   returned>>

\* Lines 768-770.
ReportApplied == Progress("report_applied", "build")

\* Lines 772-775: make doc-clean and make; `state` advances once both
\* have returned.
Build ==
    /\ pc = "build"
    /\ \/ /\ timer' = Append(timer, Label("Build", 0))
          /\ state' = "built"
          /\ stages' = Append(stages, [stage |-> "build", outcome |-> "ok"])
          /\ pc' = "report_built"
          /\ UNCHANGED exc
       \/ \E e \in DoOrDieRaises :
             /\ stages' = Append(stages, [stage |-> "build", outcome |-> e.kind])
             /\ RaiseInTee(e)
             /\ UNCHANGED <<timer, state>>
    /\ UNCHANGED <<mainVars, rateVars, selVars, job, dry_run, plugin_only, environ,
                   plugins_results, plugins_passed, res, passed, attempt,
                   calls, plugin_failed, patch_dir, returned>>

\* Lines 776-778.
ReportBuilt == Progress("report_built", "patches")

\* Lines 781-790: the patch directory is made; git format-patch runs for
\* every ticket but the baseline.
StagePatches ==
    /\ pc = "patches"
    /\ patch_dir' = patch_dir + 1
    /\ \/ pc' = "plugins" /\ UNCHANGED exc
       \/ /\ job.id # 0
          /\ \E e \in DoOrDieRaises : RaiseInTee(e)
    /\ UNCHANGED <<mainVars, rateVars, selVars, job, dry_run, plugin_only, environ,
                   state, plugins_results, plugins_passed, res, passed,
                   attempt, calls, stages, plugin_failed, timer, returned>>

\* What the call of one plugin does (lines 794-806):
\*   "pass_b", "fail_b"    returns a PluginResult that has a baseline
\*   "pass_nb", "fail_nb"  returns a PluginResult whose baseline is None
\*   "other"               returns something that is no PluginResult
\*   "raise"               raises an Exception (or git checkout does)
\*   "abort"               the run is aborted during the call
PluginOutcomes ==
    {"pass_b", "fail_b", "pass_nb", "fail_nb", "other", "raise", "abort"}

PluginResult(result_status, baseline) ==
    [kind |-> "PluginResult", status |-> result_status, baseline |-> baseline]
NotAResult(kind) == [kind |-> kind, status |-> "", baseline |-> FALSE]

\* The try without lines 805-806: a raise leaves `res` and `passed` as the
\* previous iteration left them.
PluginTryRaiseUnrecorded(o, r, p) ==
    CASE o = "pass_b" -> [res |-> PluginResult("Passed", TRUE), passed |-> <<TRUE>>]
      [] o = "fail_b" -> [res |-> PluginResult("Failed", TRUE), passed |-> <<TRUE>>]
      [] o = "pass_nb" -> [res |-> PluginResult("Passed", FALSE), passed |-> <<TRUE>>]
      [] o = "fail_nb" -> [res |-> PluginResult("Failed", FALSE), passed |-> <<TRUE>>]
      [] o = "other" -> [res |-> NotAResult("other"), passed |-> <<TRUE>>]
      [] OTHER -> [res |-> r, passed |-> p]

\* Lines 793-806: the locals `res` and `passed` after the try and except
\* clauses; an abort leaves both as the previous iteration left them.
PluginTry(o, r, p) ==
    CASE o = "pass_b" -> [res |-> PluginResult("Passed", TRUE), passed |-> <<TRUE>>]
      [] o = "fail_b" -> [res |-> PluginResult("Failed", TRUE), passed |-> <<TRUE>>]
      [] o = "pass_nb" -> [res |-> PluginResult("Passed", FALSE), passed |-> <<TRUE>>]
      [] o = "fail_nb" -> [res |-> PluginResult("Failed", FALSE), passed |-> <<TRUE>>]
      [] o = "other" -> [res |-> NotAResult("other"), passed |-> <<TRUE>>]
      [] o = "raise" -> [res |-> NotAResult("None"), passed |-> <<FALSE>>]
      [] OTHER -> [res |-> r, passed |-> p]

\* Lines 807-822, the finally clause: reading an unbound `res` raises; a
\* PluginResult is recorded only under `if res.baseline is not None`
\* (lines 809-818); anything else is recorded with `passed` as it stands.
PluginFinally(name, r, p, results) ==
    IF r.kind = "unbound"
    THEN [raised |-> TRUE, passed |-> p, results |-> results]
    ELSE IF r.kind = "PluginResult"
    THEN IF r.baseline
         THEN [raised |-> FALSE, passed |-> <<r.status = "Passed">>,
               results |-> Append(results,
                             [name |-> name, passed |-> r.status = "Passed",
                              data |-> "res.data"])]
         ELSE [raised |-> FALSE, passed |-> p, results |-> results]
    ELSE [raised |-> FALSE, passed |-> p,
          results |-> Append(results,
                        [name |-> name, passed |-> p[1], data |-> "None"])]

\* The plugins whose loop iteration has reached t.finish(name), line 821.
PluginsDone == Cardinality({i \in DOMAIN timer : timer[i].label = "plugin"})

\* Lines 792-822: one iteration of the plugin loop, the plugin's call
\* ending as o says.
RunPluginWith(o) ==
    /\ pc = "plugins"
    /\ PluginsDone < nplugins
    /\ LET name == PluginsDone + 1
           t == PluginTry(o, res, passed)
           f == PluginFinally(name, t.res, t.passed, plugins_results)
       IN /\ res' = t.res
          /\ passed' = f.passed
          /\ plugins_results' = f.results
          /\ plugin_failed' = (plugin_failed \/ o \in {"fail_b", "fail_nb", "raise"})
          /\ IF f.raised
             THEN RaiseInTee(Exc("error")) /\ UNCHANGED timer
             ELSE /\ timer' = Append(timer, Label("plugin", name))
                  /\ IF o = "abort"
                     THEN RaiseInTee(Exc("abort"))
                     ELSE UNCHANGED <<pc, exc>>
    /\ UNCHANGED <<mainVars, rateVars, selVars, job, dry_run, plugin_only, environ,
                   state, plugins_passed, attempt, calls, stages, patch_dir,
                   returned>>

RunPlugin == \E o \in PluginOutcomes : RunPluginWith(o)

\* all(passed for (name, passed, data) in plugins_results), line 823.
AllPassed(results) == \A i \in DOMAIN results : results[i].passed

\* Lines 823-830: plugins_passed, the progress report that is sent in
\* plugin-only mode too, and the final state of a plugin-only run.
ReportPlugins ==
    /\ pc = "plugins"
    /\ PluginsDone = nplugins
    /\ LET all_passed == AllPassed(plugins_results)
       IN /\ plugins_passed' = <<all_passed>>
          /\ \E o \in ReportOutcomes("Pending", FALSE) :
                /\ calls' = Append(calls,
                       report_ticket("Pending",
                                     IF all_passed THEN "plugins_passed"
                                     ELSE "plugins_failed",
                                     FALSE, FALSE))
                /\ IF o # "ok"
                   THEN RaiseInTee(Exc(o)) /\ UNCHANGED state
                   ELSE IF plugin_only
                   THEN /\ state' = IF all_passed THEN "plugins"
                                    ELSE "plugins_failed"
                        /\ pc' = "tee_exit"
                        /\ UNCHANGED exc
                   ELSE pc' = "tests" /\ UNCHANGED <<state, exc>>
    /\ UNCHANGED <<mainVars, rateVars, selVars, job, dry_run, plugin_only, environ,
                   plugins_results, res, passed, attempt, stages,
                   plugin_failed, timer, patch_dir, returned>>

\* The test stage without lines 847-848: tested whatever the plugins did.
RunTestsNoDowngrade ==
    /\ pc = "tests"
    /\ \/ /\ timer' = Append(timer, Label("Tests", 0))
          /\ state' = "tested"
          /\ stages' = Append(stages, [stage |-> "tests", outcome |-> "ok"])
          /\ pc' = "tee_exit"
          /\ UNCHANGED exc
       \/ \E e \in DoOrDieRaises :
             /\ stages' = Append(stages, [stage |-> "tests", outcome |-> e.kind])
             /\ RaiseInTee(e)
             /\ UNCHANGED <<timer, state>>
    /\ UNCHANGED <<mainVars, rateVars, selVars, job, dry_run, plugin_only, environ,
                   plugins_results, plugins_passed, res, passed, attempt,
                   calls, plugin_failed, patch_dir, returned>>

\* Lines 832-848: the test command; `state` advances once it has returned.
RunTests ==
    /\ pc = "tests"
    /\ \/ /\ timer' = Append(timer, Label("Tests", 0))
          /\ state' = IF plugins_passed[1] THEN "tested"
                      ELSE "tests_passed_plugins_failed"
          /\ stages' = Append(stages, [stage |-> "tests", outcome |-> "ok"])
          /\ pc' = "tee_exit"
          /\ UNCHANGED exc
       \/ \E e \in DoOrDieRaises :
             /\ stages' = Append(stages, [stage |-> "tests", outcome |-> e.kind])
             /\ RaiseInTee(e)
             /\ UNCHANGED <<timer, state>>
    /\ UNCHANGED <<mainVars, rateVars, selVars, job, dry_run, plugin_only, environ,
                   plugins_results, plugins_passed, res, passed, attempt,
                   calls, plugin_failed, patch_dir, returned>>

\* Tee.__exit__ (lines 125-148) returns False, so the exception in flight
\* goes on; when the tee subprocess outlives the timeout, alarm_handler
\* raises the NameError of the undefined Alarm, which `except TimeOut` lets
\* through in place of it; an abort may hit the waits.
ExitTee ==
    /\ pc = "tee_exit"
    /\ \/ UNCHANGED exc
       \/ \E e \in {Exc("error"), Exc("abort")} : exc' = e
    /\ pc' = "handle"
    /\ UNCHANGED <<mainVars, rateVars, selVars, job, dry_run, plugin_only, environ,
                   state, plugins_results, plugins_passed, res, passed,
                   attempt, calls, stages, plugin_failed, timer, patch_dir,
                   returned>>

\* The except clauses with SkipTicket's entry an hour away, whatever its delay.
HandleSkipForAnHour ==
    /\ pc = "handle"
    /\ CASE exc.kind \in {"transport", "config"} ->
              /\ to_skip' = [to_skip EXCEPT ![job.id] = now + NetworkRetryDelay]
              /\ state' = "network_error"
              /\ pc' = "report"
              /\ exc' = NoExc
         [] exc.kind = "skip" ->
              /\ to_skip' = [to_skip EXCEPT ![job.id] = now + NetworkRetryDelay]
              /\ state' = "skipped"
              /\ pc' = "report"
              /\ exc' = NoExc
         [] exc.kind = "abort" ->
              /\ to_skip' = [to_skip EXCEPT ![job.id] = now + LongRetryDelay]
              /\ pc' = "raised"
              /\ UNCHANGED <<state, exc>>
         [] OTHER ->
              /\ pc' = "report"
              /\ exc' = NoExc
              /\ UNCHANGED <<state, to_skip>>
    /\ UNCHANGED <<mainVars, rateVars, now, spc, counter, served, pass, job, dry_run,
                   plugin_only, environ, plugins_results, plugins_passed,
                   res, passed, attempt, calls, stages, plugin_failed, timer,
                   patch_dir, returned>>

\* The except clauses with an hour's entry for every other Exception too.
HandleOtherSkips ==
    /\ pc = "handle"
    /\ CASE exc.kind \in {"transport", "config"} ->
              /\ to_skip' = [to_skip EXCEPT ![job.id] = now + NetworkRetryDelay]
              /\ state' = "network_error"
              /\ pc' = "report"
              /\ exc' = NoExc
         [] exc.kind = "skip" ->
              /\ to_skip' = [to_skip EXCEPT ![job.id] = now + exc.seconds]
              /\ state' = "skipped"
              /\ pc' = "report"
              /\ exc' = NoExc
         [] exc.kind = "abort" ->
              /\ to_skip' = [to_skip EXCEPT ![job.id] = now + LongRetryDelay]
              /\ pc' = "raised"
              /\ UNCHANGED <<state, exc>>
         [] OTHER ->
              /\ to_skip' = [to_skip EXCEPT ![job.id] = now + NetworkRetryDelay]
              /\ pc' = "report"
              /\ exc' = NoExc
              /\ UNCHANGED state
    /\ UNCHANGED <<mainVars, rateVars, now, spc, counter, served, pass, job, dry_run,
                   plugin_only, environ, plugins_results, plugins_passed,
                   res, passed, attempt, calls, stages, plugin_failed, timer,
                   patch_dir, returned>>

\* The except clauses with ConfigException not named at line 850: it is
\* caught as any other Exception at line 862.
HandleConfigAsOther ==
    /\ pc = "handle"
    /\ CASE exc.kind \in {"transport"} ->
              /\ to_skip' = [to_skip EXCEPT ![job.id] = now + NetworkRetryDelay]
              /\ state' = "network_error"
              /\ pc' = "report"
              /\ exc' = NoExc
         [] exc.kind = "skip" ->
              /\ to_skip' = [to_skip EXCEPT ![job.id] = now + exc.seconds]
              /\ state' = "skipped"
              /\ pc' = "report"
              /\ exc' = NoExc
         [] exc.kind = "abort" ->
              /\ to_skip' = [to_skip EXCEPT ![job.id] = now + LongRetryDelay]
              /\ pc' = "raised"
              /\ UNCHANGED <<state, exc>>
         [] OTHER ->
              /\ pc' = "report"
              /\ exc' = NoExc
              /\ UNCHANGED <<state, to_skip>>
    /\ UNCHANGED <<mainVars, rateVars, now, spc, counter, served, pass, job, dry_run,
                   plugin_only, environ, plugins_results, plugins_passed,
                   res, passed, attempt, calls, stages, plugin_failed, timer,
                   patch_dir, returned>>

\* Lines 850-867: the except clauses of the try.
Handle ==
    /\ pc = "handle"
    /\ CASE exc.kind \in {"transport", "config"} ->
              /\ to_skip' = [to_skip EXCEPT ![job.id] = now + NetworkRetryDelay]
              /\ state' = "network_error"
              /\ pc' = "report"
              /\ exc' = NoExc
         [] exc.kind = "skip" ->
              /\ to_skip' = [to_skip EXCEPT ![job.id] = now + exc.seconds]
              /\ state' = "skipped"
              /\ pc' = "report"
              /\ exc' = NoExc
         [] exc.kind = "abort" ->
              /\ to_skip' = [to_skip EXCEPT ![job.id] = now + LongRetryDelay]
              /\ pc' = "raised"
              /\ UNCHANGED <<state, exc>>
         [] OTHER ->
              /\ pc' = "report"
              /\ exc' = NoExc
              /\ UNCHANGED <<state, to_skip>>
    /\ UNCHANGED <<mainVars, rateVars, now, spc, counter, served, pass, job, dry_run,
                   plugin_only, environ, plugins_results, plugins_passed,
                   res, passed, attempt, calls, stages, plugin_failed, timer,
                   patch_dir, returned>>

\* Lines 869-879: one delivery attempt of the final report.  status[state]
\* is evaluated first: an unbound `state` is an UnboundLocalError, which
\* `except IOError` does not catch.
FinalReport ==
    /\ pc = "report"
    /\ attempt < ReportRetries
    /\ IF state = "unbound"
       THEN /\ exc' = Exc("UnboundLocalError")
            /\ pc' = "raised"
            /\ UNCHANGED <<calls, attempt>>
       ELSE \E o \in ReportOutcomes(status[state], dry_run) :
               LET e == Exc(o)
               IN /\ calls' = Append(calls,
                         report_ticket(status[state], "None", dry_run, TRUE))
                  /\ IF o = "ok"
                     THEN pc' = "cleanup" /\ UNCHANGED <<exc, attempt>>
                     ELSE IF IsIOError(e)
                     THEN attempt' = attempt + 1 /\ UNCHANGED <<pc, exc>>
                     ELSE pc' = "raised" /\ exc' = e /\ UNCHANGED attempt
    /\ UNCHANGED <<mainVars, rateVars, selVars, job, dry_run, plugin_only, environ,
                   state, plugins_results, plugins_passed, res, passed,
                   stages, plugin_failed, timer, patch_dir, returned>>

\* Lines 880-881: the else clause of the for loop, "Error reporting".
ReportGiveUp ==
    /\ pc = "report"
    /\ attempt = ReportRetries
    /\ pc' = "cleanup"
    /\ UNCHANGED <<mainVars, rateVars, selVars, job, dry_run, plugin_only, environ,
                   state, exc, plugins_results, plugins_passed, res, passed,
                   attempt, calls, stages, plugin_failed, timer, patch_dir,
                   returned>>

\* Lines 882-885: os.environ['SAGE_ROOT'] is a KeyError when the variable
\* is not set; else the status is returned.
Cleanup ==
    /\ pc = "cleanup"
    /\ IF environ
       THEN pc' = "returned" /\ returned' = status[state] /\ UNCHANGED exc
       ELSE pc' = "raised" /\ exc' = Exc("KeyError") /\ UNCHANGED returned
    /\ UNCHANGED <<mainVars, rateVars, selVars, job, dry_run, plugin_only, environ,
                   state, plugins_results, plugins_passed, res, passed,
                   attempt, calls, stages, plugin_failed, timer, patch_dir>>

Next ==
    \/ TestATicket
    \/ ReportPending
    \/ EnterTee
    \/ CheckSpkg
    \/ SpkgDone
    \/ Apply
    \/ ReportApplied
    \/ Build
    \/ ReportBuilt
    \/ StagePatches
    \/ RunPlugin
    \/ ReportPlugins
    \/ RunTests
    \/ ExitTee
    \/ Handle
    \/ FinalReport
    \/ ReportGiveUp
    \/ Cleanup

Spec == Init /\ [][Next]_vars

\* ------------------------------------------- SpecTimeout: a run that lasts
\* config['timeout'], 3 * 60 * 60 seconds (line 416), in hours.
DefaultTimeout == 3

\* Where an external command of a stage is in flight: check_spkg,
\* pull_from_trac, make, git format-patch, a plugin, the test command.
InFlight == {"spkg", "apply", "build", "patches", "plugins", "tests"}

\* One run of ticket 7, started at time 0 (Tee.__enter__, line 123).
InitTimeout ==
    /\ RateIdle
    /\ now = 0
    /\ to_skip = EmptyLedger
    /\ spc = "idle"
    /\ counter = 0
    /\ served = <<>>
    /\ pass = <<>>
    /\ MainIdle
    /\ job \in {j \in Jobs : j.id = 7}
    /\ dry_run = FALSE
    /\ plugin_only = FALSE
    /\ environ = TRUE
    /\ pc = "call"
    /\ FreshLocals

\* An hour passes while the command of a stage is in flight.  The body of
\* the with statement sets no alarm: the timeout handed to Tee (line 738) is
\* read by Tee.__exit__ alone (line 142), for its wait on the tee subprocess.
StageTick ==
    /\ pc \in InFlight
    /\ now < MaxRunTime
    /\ now' = now + 1
    /\ UNCHANGED <<mainVars, rateVars, to_skip, spc, counter, served, pass, pipeVars>>

NextTimeout ==
    \/ Next
    \/ StageTick

SpecTimeout == InitTimeout /\ [][NextTimeout]_vars

\* ------------------------------------------------------------ C14
\* C14: a run does not go on past its timeout: once more than the timeout
\* has elapsed no command of a stage is in flight any more, and the run does
\* not end with a success status.
C14_NoRunPastTimeout ==
    now > DefaultTimeout
    => /\ pc \notin InFlight
       /\ returned \notin {"TestsPassed", "PluginOnly", "Spkg"}

\* The run lasted longer than the timeout and returned TestsPassed.
C14_Witness ==
    /\ now > DefaultTimeout
    /\ pc = "returned"
    /\ returned = "TestsPassed"

\* ------------------------------------------------------------ C1 .. C5
\* The final-report calls made so far, and the progress reports.
FinalCalls == {i \in DOMAIN calls : calls[i].final}

StageOk(name) ==
    \E i \in DOMAIN stages : stages[i] = [stage |-> name, outcome |-> "ok"]
StageTried(name) == \E i \in DOMAIN stages : stages[i].stage = name

\* The stage raised an ordinary exception: one that is neither a transport
\* error, a ConfigException, a SkipTicket nor an abort.
StageFailed(name) ==
    \E i \in DOMAIN stages :
        stages[i].stage = name /\ stages[i].outcome \in {"ioerror", "error"}

\* Every final report made carries this status, and so does the return value.
FinalStatusIs(report_status) ==
    /\ \A i \in FinalCalls : calls[i].status = report_status
    /\ pc = "returned" => returned = report_status

\* C1: on a ticket without spkgs the state is applied, built, tested only
\* once apply, build, the test command have returned without raising; when
\* a stage raises an ordinary exception the state stays where it was and
\* every final report carries its status: apply -> ApplyFailed; build (after
\* apply succeeded) -> BuildFailed with the test stage never attempted; the
\* test command -> TestsFailed.
C1_StateFollowsStages ==
    job.spkgs = 0 =>
        /\ state \in {"applied", "built", "tested",
                      "tests_passed_plugins_failed", "plugins",
                      "plugins_failed"} => StageOk("apply")
        /\ state \in {"built", "tested", "tests_passed_plugins_failed",
                      "plugins", "plugins_failed"} => StageOk("build")
        /\ state \in {"tested", "tests_passed_plugins_failed"} => StageOk("tests")
        /\ StageFailed("apply") => state = "started" /\ FinalStatusIs("ApplyFailed")
        /\ StageFailed("build") =>
              /\ StageOk("apply")
              /\ state = "applied"
              /\ ~StageTried("tests")
              /\ FinalStatusIs("BuildFailed")
        /\ StageFailed("tests") =>
              /\ StageOk("build")
              /\ state = "built"
              /\ FinalStatusIs("TestsFailed")

\* A run in which build raised after apply succeeded has returned, its one
\* final report, BuildFailed, posted.
C1_Witness ==
    /\ pc = "returned"
    /\ job.spkgs = 0
    /\ StageOk("apply")
    /\ StageFailed("build")
    /\ returned = "BuildFailed"
    /\ \E i \in FinalCalls : calls[i].status = "BuildFailed" /\ calls[i].posted

\* The run passed the branch check and has ended, by return or by raise.
RunEnded ==
    /\ job.git_branch \/ job.id = 0
    /\ pc \in {"returned", "raised"}

\* C2: every run that passed the branch check ends with a terminal state of
\* the status table assigned and the one corresponding status handed to the
\* reporter, wherever an exception was raised.
C2_ExactlyOneTerminalStatus ==
    RunEnded =>
        /\ state \in DOMAIN status
        /\ FinalCalls # {}
        /\ \A i \in FinalCalls : calls[i].status = status[state]

\* The run ended with `state` never assigned and no final report: the
\* exception of Tee.__enter__ was swallowed by `except Exception`, and
\* status[state] raised at line 871.
C2_Witness ==
    /\ pc = "raised"
    /\ exc.kind = "UnboundLocalError"
    /\ state = "unbound"
    /\ FinalCalls = {}

\* C3: the final report is attempted at most 5 times, the attempts stop at
\* the first that does not fail with an I/O error, and after 5 I/O failures
\* (as after a delivery) test_a_ticket returns normally instead of raising.
C3_FiveAttemptsThenReturn ==
    /\ Cardinality(FinalCalls) <= ReportRetries
    /\ Cardinality(FinalCalls) \in {attempt, attempt + 1}
    /\ attempt = ReportRetries => pc \in {"report", "cleanup", "returned"}

\* The part of C3 about the loop alone: at most 5 attempts, one more than
\* the I/O failures only when the last attempt was not one, and 4 failures
\* followed by a delivery make 5 attempts.
C3_LoopBounded ==
    /\ Cardinality(FinalCalls) <= ReportRetries
    /\ Cardinality(FinalCalls) \in {attempt, attempt + 1}
    /\ attempt = ReportRetries => Cardinality(FinalCalls) = ReportRetries
    /\ pc \in {"cleanup", "returned"} /\ attempt = ReportRetries - 1
          => Cardinality(FinalCalls) = ReportRetries

\* All five attempts failed with I/O errors and test_a_ticket raised: the
\* KeyError of line 882.
C3_Witness ==
    /\ attempt = ReportRetries
    /\ Cardinality(FinalCalls) = ReportRetries
    /\ pc = "raised"
    /\ exc.kind = "KeyError"

\* C4: under dry_run no report with a status other than Pending is posted
\* to the coordinator; a report with status Pending is posted whether or
\* not dry_run is set.
C4_DryRunPostsOnlyPending ==
    \A i \in DOMAIN calls :
        /\ dry_run /\ calls[i].posted => calls[i].status = "Pending"
        /\ calls[i].status = "Pending" => calls[i].posted
        /\ calls[i].final => calls[i].dry_run = dry_run

\* A dry run returned: its progress reports were posted, its final report,
\* a terminal status, was not.
C4_Witness ==
    /\ dry_run
    /\ pc = "returned"
    /\ \E i \in DOMAIN calls : calls[i].status = "Pending" /\ calls[i].posted
    /\ \E i \in FinalCalls : calls[i].status = "TestsPassed" /\ ~calls[i].posted

\* C5: plugins_passed is the conjunction of the plugins' outcomes: it is
\* false exactly when some plugin returned a failing result (with or without
\* a baseline) or raised.
C5_PluginsPassedIsConjunction ==
    plugins_passed # <<>> => plugins_passed[1] = ~plugin_failed

\* A plugin failed and plugins_passed is True.
C5_Witness ==
    /\ plugins_passed = <<TRUE>>
    /\ plugin_failed
    /\ Len(plugins_results) < NumPlugins

\* --------------------------------------------- SpecMain: the worker process
\* The --count a worker without --ticket is started with (lines 1062,
\* 1093-1095): the iterations of its loop, range(count) (line 1149).
QueueCount == 2

\* The plugins configured on the worker of SpecMain.
MainPlugins == 1

\* The values of --ticket (lines 1090-1092): one ticket, two tickets.
TicketLists == {<<7>>, <<7, 42>>}

\* scrape(N) (line 700): the ticket as the server describes it.
Scraped(N) ==
    {j \in [id : {N}, git_branch : BOOLEAN, spkgs : 0..MaxSpkgs] :
        j.id = 0 => j.spkgs = 0}

\* What check_base() does (lines 476-509): True when the base is in sync,
\* False when it was updated, an exception of do_or_die or check_output.
CheckBaseOutcomes == {"True", "False", "raises"}

\* main up to the statement before line 1123, the options parsed, --ticket
\* given.
InitMain ==
    /\ RateIdle
    /\ now = 0
    /\ to_skip = EmptyLedger
    /\ spc = "idle"
    /\ counter = 0
    /\ served = <<>>
    /\ pass = <<>>
    /\ nplugins = MainPlugins
    /\ tickets \in TicketLists
    /\ options \in [skip_base : BOOLEAN, interactive : BOOLEAN,
                    count : {Len(tickets)}]
    /\ mpc = "startup"
    /\ iter = 0
    /\ popped = <<>>
    /\ exit_code = <<>>
    /\ last = NoRun
    /\ to_skip_at_call = EmptyLedger
    /\ job = [id |-> 0, git_branch |-> TRUE, spkgs |-> 0]
    /\ dry_run = FALSE
    /\ plugin_only \in BOOLEAN
    /\ environ \in BOOLEAN
    /\ pc = "idle"
    /\ FreshLocals

\* The locals of a new call of test_a_ticket.
NewLocals ==
    /\ state' = "unbound"
    /\ plugins_results' = <<>>
    /\ plugins_passed' = <<>>
    /\ res' = [kind |-> "unbound", status |-> "", baseline |-> FALSE]
    /\ passed' = <<>>
    /\ attempt' = 0
    /\ calls' = <<>>
    /\ stages' = <<>>
    /\ plugin_failed' = FALSE
    /\ timer' = <<>>
    /\ patch_dir' = 0

\* main calls test_a_ticket(arg): arg is <<N>> for the ticket N and <<>> for
\* None.  Lines 692-700: a given ticket is scraped; with None get_ticket()
\* is called (line 695, lines 525-529).
CallTestATicket(arg) ==
    /\ to_skip_at_call' = to_skip
    /\ NewLocals
    /\ exc' = NoExc
    /\ returned' = "unbound"
    /\ IF arg # <<>>
       THEN /\ \E j \in Scraped(arg[1]) : job' = j
            /\ pc' = "call"
            /\ UNCHANGED <<spc, counter, pass>>
       ELSE /\ pc' = "get_ticket"
            /\ spc' = "fetch"
            /\ counter' = FetchRetries
            /\ pass' = <<>>
            /\ UNCHANGED job

\* Lines 695-708: get_ticket() is over.  What it raises leaves
\* test_a_ticket; without a ticket the worker naps and returns; else the
\* ticket it returned is the one to test.
GetTicketReturns ==
    /\ pc = "get_ticket"
    /\ spc = "idle"
    /\ pass # <<>>
    /\ CASE pass[1].ret = "raise" ->
              /\ pc' = "raised"
              /\ exc' = Exc("error")
              /\ UNCHANGED <<job, returned, pass>>
         [] pass[1].ret = "none" ->
              /\ pc' = "returned"
              /\ returned' = "None"
              /\ UNCHANGED <<job, exc, pass>>
         [] OTHER ->
              LET t == pass[1].list[pass[1].pick]
              IN /\ \E j \in Scraped(t.id) :
                       /\ j.git_branch = t.git_branch
                       /\ job' = j
                 /\ pc' = "call"
                 /\ pass' = <<>>
                 /\ UNCHANGED <<exc, returned>>
    /\ served' = <<>>
    /\ UNCHANGED <<mainVars, rateVars, now, to_skip, spc, counter,
                   dry_run, plugin_only, environ, state, plugins_results,
                   plugins_passed, res, passed, attempt, calls, stages,
                   plugin_failed, timer, patch_dir>>

\* The call of test_a_ticket is over.
Ended == pc \in {"returned", "raised"}

\* How it ended, as main tells the cases apart: "passed" for the results
\* TestsPassed and PluginOnly (line 1130), "other" for any other result,
\* "Exception" for an exception that `except Exception` catches, "abort"
\* for one it does not catch.
Outcome ==
    IF pc = "returned"
    THEN IF returned \in {"TestsPassed", "PluginOnly"} THEN "passed" ELSE "other"
    ELSE IF exc.kind = "abort" THEN "abort" ELSE "Exception"

\* The process ends with the exit code c.
Exit(c, how) ==
    /\ mpc' = how
    /\ exit_code' = <<c>>

\* No call is under way, and none is made.
NoCall ==
    UNCHANGED <<job, pc, state, exc, plugins_results, plugins_passed, res,
                passed, attempt, calls, stages, plugin_failed, timer,
                patch_dir, returned, to_skip_at_call, spc, counter, pass>>

\* Some stage of the call raised an ordinary exception.
RunFailed ==
    \E i \in DOMAIN stages : stages[i].outcome \in {"ioerror", "error"}

\* main takes the result of the call: what is kept of the call is how it
\* ended; its locals are gone.
TakeResult ==
    /\ last' = [kind |-> mpc, outcome |-> Outcome, failed |-> RunFailed]
    /\ to_skip_at_call' = to_skip
    /\ NewLocals
    /\ job' = [id |-> 0, git_branch |-> TRUE, spkgs |-> 0]
    /\ pc' = "idle"
    /\ exc' = NoExc
    /\ returned' = "unbound"
    /\ pass' = <<>>
    /\ UNCHANGED <<spc, counter>>

\* Lines 1123-1129: unless --skip-base, check_base() and, in plugin-only
\* mode or when this machine has no TestsPassed report of the baseline, the
\* self-test test_a_ticket(0).  Nothing catches what check_base raises.
Startup ==
    /\ mpc = "startup"
    /\ IF options.skip_base
       THEN mpc' = "loop" /\ NoCall /\ UNCHANGED exit_code
       ELSE \E b \in CheckBaseOutcomes :
               IF b = "raises"
               THEN Exit(1, "crashed") /\ NoCall
               ELSE \E good \in BOOLEAN :
                       IF plugin_only \/ ~good
                       THEN /\ mpc' = "selftest"
                            /\ CallTestATicket(<<0>>)
                            /\ UNCHANGED exit_code
                       ELSE mpc' = "loop" /\ NoCall /\ UNCHANGED exit_code
    /\ UNCHANGED <<rateVars, now, to_skip, served, nplugins, options, tickets, iter, popped,
                   last, dry_run, plugin_only, environ>>

\* Lines 1129-1147: the result of the self-test at startup.  Nothing catches
\* what test_a_ticket raises; a result other than TestsPassed and PluginOnly
\* ends the process with sys.exit(1), unless the operator of an interactive
\* worker answers y.
StartupResult ==
    /\ mpc = "selftest"
    /\ Ended
    /\ TakeResult
    /\ IF pc = "raised"
       THEN Exit(1, "crashed")
       ELSE IF returned \in {"TestsPassed", "PluginOnly"}
            THEN mpc' = "loop" /\ UNCHANGED exit_code
            ELSE IF ~options.interactive
                 THEN Exit(1, "exited")
                 ELSE \E ans \in {"y", "n", "", "IOError"} :
                         IF ans = "y"
                         THEN mpc' = "loop" /\ UNCHANGED exit_code
                         ELSE Exit(1, "exited")
    /\ UNCHANGED <<rateVars, now, to_skip, served, nplugins, options, tickets, iter, popped,
                   dry_run, plugin_only, environ>>

\* Lines 1149-1164, one iteration up to its first call: the ticket is
\* popped; outside the hours of config['time_of_day'] the worker sleeps; an
\* exception of check_base is caught at line 1168; after an update of the
\* base the baseline is tested, else the ticket.
Iterate ==
    /\ mpc = "loop"
    /\ iter < options.count
    /\ iter' = iter + 1
    /\ tickets' = IF tickets = <<>> THEN <<>> ELSE Tail(tickets)
    /\ popped' = IF tickets = <<>> THEN <<>> ELSE <<Head(tickets)>>
    /\ \E hours \in BOOLEAN, b \in CheckBaseOutcomes :
          IF ~hours \/ b = "raises"
          THEN UNCHANGED mpc /\ NoCall
          ELSE IF b = "False"
               THEN mpc' = "base" /\ CallTestATicket(<<0>>)
               ELSE mpc' = "ticket" /\ CallTestATicket(popped')
    /\ last' = NoRun
    /\ UNCHANGED <<rateVars, now, to_skip, served, nplugins, options, exit_code,
                   dry_run, plugin_only, environ>>

\* Line 1163: test_a_ticket(0) is over.  Its result is dropped and the
\* ticket is tested (line 1164); an exception ends the iteration at line
\* 1168, or the process when `except Exception` does not catch it.
BaseResult ==
    /\ mpc = "base"
    /\ Ended
    /\ last' = [kind |-> mpc, outcome |-> Outcome, failed |-> RunFailed]
    /\ IF pc = "returned"
       THEN /\ mpc' = "ticket"
            /\ CallTestATicket(popped)
            /\ UNCHANGED exit_code
       ELSE /\ IF exc.kind = "abort"
               THEN Exit(1, "crashed")
               ELSE mpc' = "loop" /\ UNCHANGED exit_code
            /\ to_skip_at_call' = to_skip
            /\ NewLocals
            /\ job' = [id |-> 0, git_branch |-> TRUE, spkgs |-> 0]
            /\ pc' = "idle"
            /\ exc' = NoExc
            /\ returned' = "unbound"
            /\ pass' = <<>>
            /\ UNCHANGED <<spc, counter>>
    /\ UNCHANGED <<rateVars, now, to_skip, served, nplugins, options, tickets, iter, popped,
                   dry_run, plugin_only, environ>>

\* The iteration without the except clause of line 1168: every exception
\* of test_a_ticket ends the process.
TicketResultNoExcept ==
    /\ mpc = "ticket"
    /\ Ended
    /\ TakeResult
    /\ IF pc = "raised"
       THEN Exit(1, "crashed")
       ELSE mpc' = "loop" /\ UNCHANGED exit_code
    /\ UNCHANGED <<rateVars, now, to_skip, served, nplugins, options, tickets, iter, popped,
                   dry_run, plugin_only, environ>>

\* Line 1164: test_a_ticket(ticket) is over.  Whatever it returned, and
\* whatever Exception it raised (lines 1168-1170), the loop goes on.
TicketResult ==
    /\ mpc = "ticket"
    /\ Ended
    /\ TakeResult
    /\ IF pc = "raised" /\ exc.kind = "abort"
       THEN Exit(1, "crashed")
       ELSE mpc' = "loop" /\ UNCHANGED exit_code
    /\ UNCHANGED <<rateVars, now, to_skip, served, nplugins, options, tickets, iter, popped,
                   dry_run, plugin_only, environ>>

\* The loop is over: main returns.
MainReturns ==
    /\ mpc = "loop"
    /\ iter = options.count
    /\ Exit(0, "done")
    /\ NoCall
    /\ UNCHANGED <<rateVars, now, to_skip, served, nplugins, options, tickets, iter, popped,
                   last, dry_run, plugin_only, environ>>

NextMain ==
    \/ Startup
    \/ StartupResult
    \/ Iterate
    \/ BaseResult
    \/ TicketResult
    \/ MainReturns
    \/ Next

SpecMain == InitMain /\ [][NextMain]_vars

\* ------------------------- SpecQueue: the worker without --ticket, which
\* takes its tickets from the coordinator.  main up to the statement before
\* line 1123, with --skip-base and --count QueueCount
\* (lines 1093-1095).
InitQueue ==
    /\ RateIdle
    /\ now = 0
    /\ to_skip = EmptyLedger
    /\ spc = "idle"
    /\ counter = 0
    /\ served = <<>>
    /\ pass = <<>>
    /\ nplugins = MainPlugins
    /\ tickets = <<>>
    /\ options = [skip_base |-> TRUE, interactive |-> FALSE, count |-> QueueCount]
    /\ mpc = "startup"
    /\ iter = 0
    /\ popped = <<>>
    /\ exit_code = <<>>
    /\ last = NoRun
    /\ to_skip_at_call = EmptyLedger
    /\ job = [id |-> 0, git_branch |-> TRUE, spkgs |-> 0]
    /\ dry_run = FALSE
    /\ plugin_only \in BOOLEAN
    /\ environ = TRUE
    /\ pc = "idle"
    /\ FreshLocals

NextQueue ==
    \/ Startup
    \/ Iterate
    \/ BaseResult
    \/ TicketResult
    \/ MainReturns
    \/ FetchFail
    \/ FetchOk
    \/ FetchError
    \/ FetchGiveUp
    \/ RateAndPick
    \/ GetTicketReturns
    \/ Next

SpecQueue == InitQueue /\ [][NextQueue]_vars

\* ------------------------------------------------------------ C15
\* The statuses of a run that a failing stage ended.
FailureStatuses == {"ApplyFailed", "BuildFailed", "TestsFailed"}

\* C15: in a call of test_a_ticket made by the worker loop, a stage that
\* raises an ordinary exception does not end the process: a call that
\* returns, returns a failure status, and unless an abort ended the call
\* main is afterwards in its loop (or testing the ticket after the
\* baseline, or past its last iteration), no exit code other than 0 set.
C15_StageFailureKeepsWorkerAlive ==
    /\ (mpc \in {"base", "ticket"} /\ RunFailed /\ pc = "returned")
          => returned \in FailureStatuses
    /\ (last.kind \in {"base", "ticket"} /\ last.failed
            /\ last.outcome # "abort")
          => /\ mpc \in {"loop", "ticket", "done"}
             /\ exit_code = IF mpc = "done" THEN <<0>> ELSE <<>>
             /\ mpc = "done" => iter = options.count

\* A ticket's run with a failed stage is over and the loop stands before
\* its next iteration, the next ticket still in the list.
C15_Witness ==
    /\ mpc = "loop"
    /\ last = [kind |-> "ticket", outcome |-> "other", failed |-> TRUE]
    /\ iter < options.count
    /\ tickets = <<42>>

\* ------------------------------------------------------------ C16
\* C16: once a self-test of the baseline, at startup or after an update of
\* the base in the worker loop, has returned a result other than TestsPassed
\* and PluginOnly, a non-interactive worker has exited with code 1 and no
\* call of test_a_ticket is under way.
C16_FailedSelfTestExits ==
    (last.kind \in {"selftest", "base"} /\ last.outcome = "other"
        /\ ~options.interactive)
      => /\ exit_code = <<1>>
         /\ mpc = "exited"
         /\ pc = "idle"

\* The part of C16 that holds: the self-test made at startup.
C16_FailedStartupSelfTestExits ==
    (last.kind = "selftest" /\ last.outcome = "other" /\ ~options.interactive)
      => /\ exit_code = <<1>>
         /\ mpc = "exited"
         /\ pc = "idle"

\* The self-test of the loop returned a failure and the ticket's test has
\* begun on a non-interactive worker.
C16_Witness ==
    /\ ~options.interactive
    /\ last = [kind |-> "base", outcome |-> "other", failed |-> TRUE]
    /\ mpc = "ticket"
    /\ pc = "call"
    /\ job.id = 7
    /\ exit_code = <<>>

\* ------------------------------------------------------------ C17
\* C17: when test_a_ticket has returned or raised, no temporary directory
\* that it made is left: each check_spkg has removed its own (lines
\* 979-981), and no patch directory of line 781 exists.
C17_TempDirsRemoved == pc \in {"returned", "raised"} => patch_dir = 0

\* A run without any exception has returned TestsPassed and its patch
\* directory is still there.
C17_Witness ==
    /\ pc = "returned"
    /\ returned = "TestsPassed"
    /\ \A i \in DOMAIN stages : stages[i].outcome = "ok"
    /\ ~plugin_failed
    /\ patch_dir = 1

\* ------------------------------------------------------------ C18
\* A transport failure was raised in the run: by pull_from_trac, or by the
\* first Pending report, which nothing in test_a_ticket catches.
TransportRaised ==
    \/ \E i \in DOMAIN stages : stages[i].outcome = "transport"
    \/ pc = "raised" /\ exc.kind = "transport"

\* C18: a run in which a transport failure was raised ends in the state
\* network_error, with the ticket's skip entry at now + 1 hour and Pending
\* the status of every final report and of the return value.
C18_TransportFailureHandled ==
    (RunEnded /\ TransportRaised)
      => /\ state = "network_error"
         /\ to_skip[job.id] = now + NetworkRetryDelay
         /\ FinalStatusIs("Pending")

\* The part of C18 that holds: a transport failure that reaches the except
\* clause of line 850 is handled as claimed.
C18_HandledAtLine850 ==
    (pc \in {"report", "cleanup", "returned"} /\ state = "network_error")
      => /\ to_skip[job.id] = now + NetworkRetryDelay
         /\ FinalStatusIs("Pending")
         /\ ~StageTried("tests")

\* The first Pending report failed with a transport error: test_a_ticket
\* has raised it, no state assigned, no skip entry, no final report.
C18_Witness ==
    /\ pc = "raised"
    /\ exc.kind = "transport"
    /\ state = "unbound"
    /\ to_skip[job.id] = NoEntry
    /\ FinalCalls = {}

\* ------------------------------------------------------------ C19
\* C19: when SkipTicket reaches the except clause of line 858, the ticket's
\* entry in the ledger becomes now + the delay it carries, whatever entry
\* was there, no other entry changes, and the state becomes skipped; in the
\* state skipped every final report, and the return value, is Pending.
C19_SkipTicketRecordsItsDelay ==
    /\ [][(pc = "handle" /\ exc.kind = "skip")
            => /\ to_skip' = [to_skip EXCEPT ![job.id] = now + exc.seconds]
               /\ state' = "skipped"]_vars
    /\ [](state = "skipped" => FinalStatusIs("Pending"))

\* A SkipTicket without delay has replaced the entry that the call found for
\* the ticket, and Pending was returned.
C19_Witness ==
    /\ state = "skipped"
    /\ pc = "returned"
    /\ returned = "Pending"
    /\ to_skip_at_call[job.id] = now + NetworkRetryDelay
    /\ to_skip[job.id] = now

\* ------------------------------------------------------------ C20
\* The handlers are past (or the call has raised without an abort).
PastHandlers ==
    /\ pc \in {"report", "cleanup", "returned", "raised"}
    /\ exc.kind # "abort"

\* Some stage raised an exception of one of these kinds.
StageRaised(kinds) == \E i \in DOMAIN stages : stages[i].outcome \in kinds

\* The state a failing stage finds: started at apply, applied at the
\* build, built at the tests.
StateAtFailure ==
    IF StageTried("tests") THEN "built"
    ELSE IF StageTried("build") THEN "applied" ELSE "started"

C21_AbortBooksLongSkip ==
    (pc = "raised" /\ exc.kind = "abort")
      => /\ to_skip[job.id] = now + LongRetryDelay
         /\ FinalCalls = {}

\* The part of C21 that holds: an abort that reaches the bare except of
\* line 864 writes the entry and is raised again, before any final report.
C21_AbortAtLine864 ==
    [][(pc = "handle" /\ exc.kind = "abort")
         => /\ to_skip' = [to_skip EXCEPT ![job.id] = now + LongRetryDelay]
            /\ pc' = "raised"
            /\ FinalCalls = {}]_vars

\* The abort hit the first Pending report: it has left test_a_ticket and
\* the ticket has no entry.
C21_Witness ==
    /\ pc = "raised"
    /\ exc.kind = "abort"
    /\ state = "unbound"
    /\ job.id = 7
    /\ to_skip[job.id] = NoEntry

\* ------------------------------------------------------------ C22
\* The plugin loop is over and line 823 has been reached.
PluginPhaseOver == plugins_passed # <<>>

\* C22: after the plugin sub-phase plugins_results holds one entry for each
\* configured plugin, in the order of config['plugins'].
C22_OneEntryPerPlugin ==
    PluginPhaseOver
      => /\ Len(plugins_results) = nplugins
         /\ \A i \in DOMAIN plugins_results : plugins_results[i].name = i

\* The part of C22 that holds: the entries there are, are in the order of
\* config['plugins'], at most one for a plugin.
C22_OrderKept ==
    \A i, j \in DOMAIN plugins_results :
        i < j => plugins_results[i].name < plugins_results[j].name

\* Every plugin has run, the second returned a PluginResult without a
\* baseline, and the list holds the entries of the first and the third.
C22_Witness ==
    /\ PluginPhaseOver
    /\ nplugins = NumPlugins
    /\ Len(plugins_results) = 2
    /\ plugins_results[1].name = 1
    /\ plugins_results[2].name = 3

\* ------------------------------------------------------------ C23
\* C23: the iteration of a plugin that raises appends (name, False, None)
\* for it, leaves `res` None, so that no baseline is dumped, raises nothing
\* and leaves the state as it is: the loop stands before the next plugin.
C23_RaisingPluginIsFailedAndPassedOver ==
    [][RunPluginWith("raise")
         => /\ plugins_results' =
                  Append(plugins_results,
                         [name |-> PluginsDone + 1, passed |-> FALSE,
                          data |-> "None"])
            /\ res'.kind = "None"
            /\ PluginsDone' = PluginsDone + 1
            /\ pc' = "plugins"
            /\ exc' = NoExc
            /\ state' = state]_vars

\* The first plugin raised, the second and third have run after it and
\* have their entries, and the state is still built.
C23_Witness ==
    /\ pc = "plugins"
    /\ state = "built"
    /\ Len(plugins_results) = 3
    /\ plugins_results[1] = [name |-> 1, passed |-> FALSE, data |-> "None"]
    /\ plugins_results[2].name = 2
    /\ plugins_results[3] = [name |-> 3, passed |-> TRUE, data |-> "res.data"]

\* ------------------------------------------------------------ C24
\* The step of lines 823-830 in which the progress report returns.
PluginPhaseCompletes ==
    /\ pc = "plugins"
    /\ PluginsDone = nplugins
    /\ pc' # "tee_exit" \/ exc' = NoExc

\* C24: when the plugin sub-phase completes, a plugin-only run leaves the
\* with block in the state plugins or plugins_failed, as plugins_passed
\* says, and any other run goes to the test stage; a plugin-only run never
\* tries the tests, and these states are final; once the test command has
\* returned the state is tested or tests_passed_plugins_failed, as
\* plugins_passed says, it is final, and every final report carries its
\* status, TestsPassed or PluginFailed.
C24_StateAfterPlugins ==
    /\ [][PluginPhaseCompletes
            => IF plugin_only
               THEN /\ pc' = "tee_exit"
                    /\ state' = IF plugins_passed'[1] THEN "plugins"
                                 ELSE "plugins_failed"
               ELSE pc' = "tests" /\ state' = "built"]_vars
    /\ [](plugin_only => ~StageTried("tests") /\ pc # "tests")
    /\ [](state \in {"plugins", "plugins_failed"}
            => /\ plugin_only
               /\ state = IF plugins_passed[1] THEN "plugins"
                          ELSE "plugins_failed"
               /\ FinalStatusIs(status[state]))
    /\ [](StageOk("tests")
            => /\ state = IF plugins_passed[1] THEN "tested"
                          ELSE "tests_passed_plugins_failed"
               /\ FinalStatusIs(IF plugins_passed[1] THEN "TestsPassed"
                                ELSE "PluginFailed"))

\* The tests passed after a plugin had failed: PluginFailed is returned.
C24_Witness ==
    /\ pc = "returned"
    /\ ~plugin_only
    /\ StageOk("tests")
    /\ plugins_passed = <<FALSE>>
    /\ state = "tests_passed_plugins_failed"
    /\ returned = "PluginFailed"

Timed(name) == \E k \in DOMAIN timer : timer[k].label = name

\* C26: every stage that was started, apply, build or the tests, has its
\* entry in the timer's history, whether it returned or raised.
C26_EveryStartedStageTimed ==
    /\ StageTried("apply") => Timed("Apply")
    /\ StageTried("build") => Timed("Build")
    /\ StageTried("tests") => Timed("Tests")

\* The part of C26 that holds: a stage that returned has its entry, and so
\* has every plugin with an entry in plugins_results, passed, failed or
\* raising.
C26_CompletedStagesAndPluginsTimed ==
    /\ StageOk("apply") => Timed("Apply")
    /\ StageOk("build") => Timed("Build")
    /\ StageOk("tests") => Timed("Tests")
    /\ \A i \in DOMAIN plugins_results :
          \E k \in DOMAIN timer :
              timer[k] = Label("plugin", plugins_results[i].name)

\* The build raised: BuildFailed is returned and the history holds the
\* entry of Apply alone.
C26_Witness ==
    /\ pc = "returned"
    /\ returned = "BuildFailed"
    /\ StageFailed("build")
    /\ timer = <<Label("Apply", 0)>>

\* ------------------------- C27
\* get_ticket raised in the call test_a_ticket(None) of line 1164.
FetchRaised ==
    /\ mpc = "ticket"
    /\ pc = "raised"
    /\ pass # <<>>
    /\ pass[1].ret = "raise"

\* C27, as stated: get_ticket fetches the list at most 10 times; when every
\* attempt fails it raises, no pipeline run is started in that iteration of
\* the worker loop, and the loop goes on.  Here: in the iteration in which
\* get_ticket raised, no test_a_ticket(0) of line 1163 has run.
C27_NoRunInTheIteration ==
    FetchRaised => last.kind = "none"

\* C27, amended: the retry counter starts at 10 and stays in 0..10; every
\* failed attempt that is retried costs one retry, and an attempt needs a
\* retry left; get_ticket raises when none is left; the call in which
\* get_ticket raised runs no stage, sends no report and books no ledger
\* entry, and main goes on with the loop.  (A run of the baseline, line
\* 1163, may have preceded the call in the same iteration.)
C27_FetchBoundedAndRaiseSkipsTheRun ==
    /\ [](counter \in 0..FetchRetries)
    /\ [][(pc' = "get_ticket" /\ pc # "get_ticket") => counter' = FetchRetries]_vars
    /\ [][FetchFail => counter' = counter - 1 /\ counter > 0]_vars
    /\ [][(FetchOk \/ FetchError) => counter > 0]_vars
    /\ [][FetchGiveUp => counter = 0 /\ pass'[1].ret = "raise"]_vars
    /\ [](FetchRaised => /\ calls = <<>>
                          /\ stages = <<>>
                          /\ state = "unbound"
                          /\ to_skip = to_skip_at_call)
    /\ [][(TicketResult /\ FetchRaised) => mpc' = "loop" /\ exit_code' = <<>>]_vars

\* Every fetch failed, get_ticket raised, and iterations are left; the
\* baseline has run before in this iteration.
C27_Witness ==
    /\ FetchRaised
    /\ counter = 0
    /\ iter < options.count
    /\ last.kind = "base"

\* ------------------------- C28
\* C28, as stated: for a ticket with a non-empty spkg list test_a_ticket
\* runs one package check per spkg, never attempts apply, build, plugins or
\* tests, and ends in state spkg with reported status Spkg.  Here: when the
\* call has returned, every spkg has been checked, no other stage was
\* tried, the state is spkg, and the final report and the result are Spkg.
C28_SpkgTicketEndsAsSpkg ==
    (job.spkgs > 0 /\ pc = "returned")
        => /\ Len(timer) = job.spkgs
           /\ stages = <<>>
           /\ plugins_results = <<>>
           /\ state = "spkg"
           /\ FinalCalls # {}
           /\ FinalStatusIs("Spkg")

\* What holds of the spkg path: no other stage is ever tried; inside the
\* loop of line 745 the state is spkg; in state spkg every final report
\* and the result are Spkg; the loop is left without an exception only
\* when every spkg has been checked; and a call that returns a status
\* returns Spkg.
C28_SpkgPathOnceEntered ==
    job.spkgs > 0
        => /\ stages = <<>>
           /\ plugins_results = <<>>
           /\ patch_dir = 0
           /\ (pc = "spkg" => state = "spkg")
           /\ (state = "spkg" => FinalStatusIs("Spkg"))
           /\ (pc = "tee_exit" /\ exc = NoExc) => Len(timer) = job.spkgs
           /\ (pc = "returned" /\ returned # "None")
                 => /\ state = "spkg"
                    /\ returned = "Spkg"

\* A ticket with spkgs and without a git branch: the call has returned at
\* line 722, no spkg checked, nothing reported.
C28_Witness ==
    /\ job.spkgs > 0
    /\ ~job.git_branch
    /\ pc = "returned"
    /\ returned = "None"
    /\ timer = <<>>
    /\ calls = <<>>

\* ------------------------- C29
\* The run reports TestsPassed: in a final report or as its result.
ReportsTestsPassed ==
    \/ \E i \in FinalCalls : calls[i].status = "TestsPassed"
    \/ pc = "returned" /\ returned = "TestsPassed"

\* C29, as stated: TestsPassed is reported only for runs in which apply,
\* build and the test stage have completed without raising and no
\* configured plugin has returned a failing result or raised.
C29_TestsPassedOnlyWhenAllPassed ==
    ReportsTestsPassed
        => /\ StageOk("apply")
           /\ StageOk("build")
           /\ StageOk("tests")
           /\ ~plugin_failed

\* What holds of TestsPassed: apply, build and the tests have completed,
\* the state is tested, not plugin-only mode, and no entry of
\* plugins_results is a failure.
C29_TestsPassedOnlyWhenNoFailureRecorded ==
    ReportsTestsPassed
        => /\ StageOk("apply")
           /\ StageOk("build")
           /\ StageOk("tests")
           /\ state = "tested"
           /\ ~plugin_only
           /\ plugins_passed = <<TRUE>>
           /\ \A i \in DOMAIN plugins_results : plugins_results[i].passed

\* TestsPassed is returned for a run in which a plugin failed.
C29_Witness ==
    /\ pc = "returned"
    /\ returned = "TestsPassed"
    /\ plugin_failed
    /\ StageOk("tests")

\* ------------------------- C30
\* The run reports TestsFailed: in a final report or as its result.
ReportsTestsFailed ==
    \/ \E i \in FinalCalls : calls[i].status = "TestsFailed"
    \/ pc = "returned" /\ returned = "TestsFailed"

\* C30, as stated: TestsFailed is reported only for runs in which the test
\* command was invoked and raised; a failure between the end of the build
\* and the start of the tests is never reported as TestsFailed.
C30_TestsFailedOnlyWhenTestsRaised ==
    ReportsTestsFailed
        => \E i \in DOMAIN stages :
              stages[i].stage = "tests" /\ stages[i].outcome # "ok"

\* What holds of TestsFailed: the build has completed, the state is built,
\* and the test command has not returned.
C30_TestsFailedOnlyAfterBuild ==
    ReportsTestsFailed
        => /\ StageOk("build")
           /\ state = "built"
           /\ ~StageOk("tests")

\* In plugin-only mode, where the test command is never run, TestsFailed is
\* returned.
C30_Witness ==
    /\ pc = "returned"
    /\ returned = "TestsFailed"
    /\ plugin_only
    /\ ~StageTried("tests")

\* ------------------------- C31
\* C31, as stated: with --ticket every listed ticket is handed to
\* test_a_ticket exactly once, in list order, before the loop ends; none
\* is dropped because the iteration fell outside the time-of-day window or
\* because check_base or the test of the baseline raised.  Here: between
\* two iterations, and after the loop, the ticket popped last has been
\* handed to test_a_ticket (line 1164).
C31_EveryPoppedTicketIsHanded ==
    (mpc \in {"loop", "done"} /\ popped # <<>>) => last.kind = "ticket"

\* What holds of the list: the tickets are popped in list order, one an
\* iteration, and the call of line 1164 is made with the ticket popped in
\* its iteration.
C31_HandedInListOrder ==
    /\ Len(tickets) = options.count - iter
    /\ (mpc \in {"base", "ticket"} => popped # <<>>)
    /\ (mpc = "ticket" /\ pc # "idle") => job.id = popped[1]
    /\ (popped # <<>> /\ tickets # <<>>) => popped[1] # tickets[1]

\* The loop is over and main has returned; the last ticket of the list was
\* popped and no test_a_ticket was called in its iteration.
C31_Witness ==
    /\ mpc = "done"
    /\ exit_code = <<0>>
    /\ popped # <<>>
    /\ tickets = <<>>
    /\ last.kind = "none"

\* ------------------------- C32
\* test_a_ticket has returned after a run of the pipeline, not in dry-run
\* mode (the return of line 722 is no run).
ReturnedAfterRun ==
    /\ ~dry_run
    /\ pc = "returned"
    /\ returned # "None"

\* The loop of lines 869-879 was left by its break: an attempt of the
\* final report has returned.
FinalReportDelivered == attempt < ReportRetries

\* rate_ticket, lines 667-673: the ledger holds an entry for the ticket
\* that has not expired.
HasUnexpiredEntry(id) ==
    /\ to_skip[id] # NoEntry
    /\ ~(to_skip[id] < now)

\* C32, as stated: outside dry-run mode, whenever test_a_ticket returns
\* after a pipeline run for a ticket, either the final report of the run
\* was delivered or the skip ledger holds an unexpired entry for the
\* ticket.
C32_DeliveredOrInLedger ==
    ReturnedAfterRun => FinalReportDelivered \/ HasUnexpiredEntry(job.id)

\* What holds: the runs that end in the states network_error and skipped
\* have written an entry, whether or not their report is delivered; of the
\* other runs that return only those of the spkg path have.
C32_EntryOnlyForSkipStates ==
    ReturnedAfterRun
        => /\ (state \in {"network_error", "skipped"}
                  => to_skip[job.id] # NoEntry)
           /\ (to_skip[job.id] # NoEntry
                  => state \in {"network_error", "skipped", "spkg"})

\* The build failed, the five attempts of the final report failed, the
\* call has returned BuildFailed and the ledger has no entry for the ticket.
C32_Witness ==
    /\ ReturnedAfterRun
    /\ returned = "BuildFailed"
    /\ attempt = ReportRetries
    /\ to_skip[job.id] = NoEntry

\* ------------------------- C33
\* The orderings of a list of reports.
Orderings(list) ==
    LET n == Len(list)
        perms == {p \in [1..n -> 1..n] : \A i, j \in 1..n : i # j => p[i] # p[j]}
    IN {[i \in 1..n |-> list[p[i]]] : p \in perms}

\* rate_ticket on the ticket of the call, its reports in the order q.
RatedInOrder(q) ==
    rate_ticket([rticket EXCEPT !.reports = q], rconfig, to_skip, now)

\* Two calls of rate_ticket end alike: both raise, or both return None, or
\* both return a score with the same uniqueness and rating.
SameRating(a, b) ==
    /\ a.kind = b.kind
    /\ a.kind = "score" => a.uniqueness = b.uniqueness /\ a.rating = b.rating

\* C33, as stated: for a fixed ticket, configuration, base and ledger,
\* rate_ticket returns the same result (testability, uniqueness, rating)
\* for every ordering of the same prior reports, reports without a base
\* commit among them or not.
C33_SameForEveryOrdering ==
    \A k \in 1..Len(rated) :
        \A q \in Orderings(rticket.reports) : SameRating(rated[k], RatedInOrder(q))

\* What holds: when every report carries a base commit, the order of the
\* reports does not matter.
C33_SameForEveryOrderingWithBases ==
    \A k \in 1..Len(rated) :
        (\A i \in DOMAIN rticket.reports : rticket.reports[i].has_git_base)
            => \A q \in Orderings(rticket.reports) :
                  SameRating(rated[k], RatedInOrder(q))

\* A ticket with a report that has a base commit and one that has none got
\* a score; with the same reports in another order rate_ticket does not
\* return a score.
C33_Witness ==
    /\ rated # <<>>
    /\ rated[1].kind = "score"
    /\ Len(rticket.reports) = 2
    /\ rticket.reports[1].has_git_base
    /\ ~rticket.reports[2].has_git_base
    /\ \E q \in Orderings(rticket.reports) : RatedInOrder(q).kind # "score"

====
